---- MODULE Spec2Model ----
(***************************************************************************)
(* unlayer: a layer-based dependency-injection container.                  *)
(*                                                                         *)
(* Layers (value / factory / merged) are plain data (src/layer.ts).        *)
(* createContainer (src/container.ts) flattens a layer tree into a graph,  *)
(* validates it, and returns a container whose get builds services lazily  *)
(* and whose dispose runs the recorded dispose hooks.                      *)
(***************************************************************************)
EXTENDS Integers, Sequences, FiniteSets, TLC

\* ------------------------------------------------------------------------
\* Bounds of the model
\* ------------------------------------------------------------------------
\* most leaf (value/factory) layers in a tree handed to createContainer
MaxLeaves == 2
\* longest dependency list of a factory layer
MaxDeps == 1
\* most get calls on one container
MaxGets == 2
\* longest dependency list of a factory layer of a running container
MaxRunDeps == 2
MaxDisposes == 2

\* tag names in use
Names == {"A", "B", "C"}

\* ------------------------------------------------------------------------
\* JavaScript Map / Set, both iterate in insertion order
\* ------------------------------------------------------------------------
\* Map.has
MapHas(m, k) == \E i \in 1..Len(m) : m[i].key = k

\* Map.get of a present key
MapGet(m, k) == m[CHOOSE i \in 1..Len(m) : m[i].key = k].value

\* Map.set: an existing key keeps its position, a new key goes last
MapSet(m, k, v) ==
  IF MapHas(m, k)
  THEN [i \in 1..Len(m) |-> IF m[i].key = k THEN [key |-> k, value |-> v] ELSE m[i]]
  ELSE Append(m, [key |-> k, value |-> v])

\* Map.keys, as a sequence in iteration order
MapKeys(m) == [i \in 1..Len(m) |-> m[i].key]

\* Set.add on an insertion-ordered Set<string>
SetAdd(s, x) == IF \E i \in 1..Len(s) : s[i] = x THEN s ELSE Append(s, x)

\* ------------------------------------------------------------------------
\* Tags (src/tag.ts) and layers (src/layer.ts)
\* ------------------------------------------------------------------------
\* tag(name): a fresh object { name, _brand }; id stands for the object's identity
tag(name, id) == [name |-> name, id |-> id]

\* the tag slot of a merged layer (undefined)
NoTag == [name |-> "", id |-> 0]

\* LayerOptions that were not given (options undefined): no scope, no dispose.
\* dispose = 0 stands for undefined, a positive number names the hook closure.
NoOptions == [scope |-> "undefined", dispose |-> 0]

\* MergeOptions that were not given (mergeOptions undefined)
NoMergeOptions == [given |-> FALSE, allowDuplicates |-> FALSE]

\* MergeOptions { allowDuplicates }
MergeOptions(allow) == [given |-> TRUE, allowDuplicates |-> allow]

\* new LayerImpl(...); value = 0 and factory = 0 stand for undefined
LayerImpl(type, tg, value, dependencies, factory, options, layers, mergeOptions) ==
  [type |-> type, tag |-> tg, value |-> value, dependencies |-> dependencies,
   factory |-> factory, options |-> options, layers |-> layers,
   mergeOptions |-> mergeOptions]

\* Layer.value(tag, value)
LayerValue(tg, value) ==
  LayerImpl("value", tg, value, <<>>, 0, NoOptions, <<>>, NoMergeOptions)

\* Layer.factory(tag, dependencies, factory, options), and the overload without
\* a dependency list, which stores dependencies = []
LayerFactory(tg, dependencies, factory, options) ==
  LayerImpl("factory", tg, 0, dependencies, factory, options, <<>>, NoMergeOptions)

\* Layer.merge(layers, options): a new merged layer over the given children
LayerMerge(layers, options) ==
  LayerImpl("merged", NoTag, 0, <<>>, 0, NoOptions, layers, options)

\* the values a caller may pass to Layer.merge besides layers: an array of
\* layers, and an object literal written for MergeOptions, whose
\* allowDuplicates key is optional
ArrayOf(layers) == [array |-> layers]
ObjectLiteral(keys, allowDuplicates) == [keys |-> keys, allowDuplicates |-> allowDuplicates]
isArray(arg) == "array" \in DOMAIN arg
\* 'type' in arg: true of a LayerImpl, false of an options literal
hasType(arg) == "type" \in DOMAIN arg
\* 'allowDuplicates' in arg
hasAllowDuplicates(arg) == "keys" \in DOMAIN arg /\ "allowDuplicates" \in arg.keys
\* the mergeOptions a Merged layer holds when it was given the object literal
\* as its options: allowDuplicates reads as true only if the key is there
asMergeOptions(arg) ==
  MergeOptions("allowDuplicates" \in arg.keys /\ arg.allowDuplicates)

\* the loop of the spread form: an argument that is an object without a type
\* key and with an allowDuplicates key ends the loop as the options; any
\* other argument is pushed as a layer
RECURSIVE mergeSpread(_, _, _)
mergeSpread(args, i, layers) ==
  IF i > Len(args) THEN LayerMerge(layers, NoMergeOptions)
  ELSE IF ~hasType(args[i]) /\ hasAllowDuplicates(args[i])
       THEN LayerMerge(layers, asMergeOptions(args[i]))
       ELSE mergeSpread(args, i + 1, Append(layers, args[i]))

\* Layer.merge(...args)
merge(args) ==
  IF Len(args) > 0 /\ isArray(args[1])
  THEN LayerMerge(args[1].array,
                  IF Len(args) > 1 THEN asMergeOptions(args[2]) ELSE NoMergeOptions)
  ELSE mergeSpread(args, 1, <<>>)

isMerged(impl) == impl.type = "merged"
isValue(impl) == impl.type = "value"
isFactory(impl) == impl.type = "factory"

\* ------------------------------------------------------------------------
\* Errors
\* ------------------------------------------------------------------------
NoError == [kind |-> "none", names |-> <<>>]
\* `Circular dependency detected: ${nodeName}`
CircularDependency(nodeName) == [kind |-> "CircularDependency", names |-> <<nodeName>>]
\* `Duplicate tag detected: ${duplicates.join(', ')}. ...`
DuplicateTag(duplicates) == [kind |-> "DuplicateTag", names |-> duplicates]
\* `Service not found: ${tag.name}`
ServiceNotFound(name) == [kind |-> "ServiceNotFound", names |-> <<name>>]

\* ------------------------------------------------------------------------
\* buildGraph (src/container.ts)
\* ------------------------------------------------------------------------
EmptyGraph == [nodes |-> <<>>, edges |-> <<>>, layerMap |-> <<>>, tagCounts |-> <<>>]

\* every name counted once, however often it is registered
incrementTagCountOnce(graph, tagName) ==
  [graph EXCEPT !.tagCounts = MapSet(@, tagName, 1)]

\* incrementTagCount
incrementTagCount(graph, tagName) ==
  LET currentCount == IF MapHas(graph.tagCounts, tagName)
                      THEN MapGet(graph.tagCounts, tagName) ELSE 0
  IN [graph EXCEPT !.tagCounts = MapSet(@, tagName, currentCount + 1)]

\* the Set of dependency names of a factory layer, in insertion order
RECURSIVE depNames(_, _)
depNames(dependencies, i) ==
  IF i = 0 THEN <<>>
  ELSE SetAdd(depNames(dependencies, i - 1), dependencies[i].name)

\* collectLayers(impl), with the graph it updates passed along
RECURSIVE collectLayers(_, _)
RECURSIVE collectChildren(_, _, _)
\* a Merged child is skipped instead of being descended into
collectChildrenNotNested(graph, layers, i) ==
  IF i = 0 THEN graph
  ELSE IF isMerged(layers[i]) THEN collectChildren(graph, layers, i - 1)
  ELSE collectLayers(collectChildren(graph, layers, i - 1), layers[i])

collectChildren(graph, layers, i) ==
  IF i = 0 THEN graph
  ELSE collectLayers(collectChildren(graph, layers, i - 1), layers[i])

\* a layer object that is already the recorded layer of its name is not
\* counted again
collectLayersPerObject(graph, impl) ==
  IF isMerged(impl) THEN collectChildren(graph, impl.layers, Len(impl.layers))
  ELSE IF MapHas(graph.layerMap, impl.tag.name) /\ MapGet(graph.layerMap, impl.tag.name) = impl
  THEN graph
  ELSE
    LET g1 == incrementTagCount(
                [graph EXCEPT !.nodes = MapSet(@, impl.tag.name, impl.tag),
                              !.layerMap = MapSet(@, impl.tag.name, impl)],
                impl.tag.name)
    IN IF isFactory(impl) /\ Len(impl.dependencies) > 0
       THEN [g1 EXCEPT !.edges = MapSet(@, impl.tag.name,
                                        depNames(impl.dependencies, Len(impl.dependencies)))]
       ELSE g1

collectLayers(graph, impl) ==
  IF isMerged(impl) THEN collectChildren(graph, impl.layers, Len(impl.layers))
  ELSE IF isValue(impl) THEN
    incrementTagCount(
      [graph EXCEPT !.nodes = MapSet(@, impl.tag.name, impl.tag),
                    !.layerMap = MapSet(@, impl.tag.name, impl)],
      impl.tag.name)
  ELSE
    LET g1 == incrementTagCount(
                [graph EXCEPT !.nodes = MapSet(@, impl.tag.name, impl.tag),
                              !.layerMap = MapSet(@, impl.tag.name, impl)],
                impl.tag.name)
    IN IF Len(impl.dependencies) > 0
       THEN [g1 EXCEPT !.edges = MapSet(@, impl.tag.name,
                                        depNames(impl.dependencies, Len(impl.dependencies)))]
       ELSE g1

buildGraph(layer) == collectLayers(EmptyGraph, layer)

\* ------------------------------------------------------------------------
\* topologicalSort (src/container.ts)
\* ------------------------------------------------------------------------
\* visit(nodeName): st carries visited, temp, order and the error thrown so far
RECURSIVE visit(_, _, _)
RECURSIVE visitDeps(_, _, _, _)
visitDeps(graph, st, deps, i) ==
  IF i = 0 THEN st
  ELSE visit(graph, visitDeps(graph, st, deps, i - 1), deps[i])

\* a node in progress treated like a finished one
visitIgnoresTemp(graph, st, nodeName) ==
  IF st.thrown # NoError THEN st
  ELSE IF nodeName \in st.temp \/ nodeName \in st.visited THEN st
  ELSE
    LET s1 == [st EXCEPT !.temp = @ \cup {nodeName}]
        deps == IF MapHas(graph.edges, nodeName) THEN MapGet(graph.edges, nodeName) ELSE <<>>
        s2 == visitDeps(graph, s1, deps, Len(deps))
    IN IF s2.thrown # NoError THEN s2
       ELSE [s2 EXCEPT !.temp = @ \ {nodeName},
                       !.visited = @ \cup {nodeName},
                       !.order = Append(@, nodeName)]

\* a dependency that is no node of the graph rejected during the sort
visitRequiresNode(graph, st, nodeName) ==
  IF st.thrown # NoError THEN st
  ELSE IF ~MapHas(graph.nodes, nodeName) THEN [st EXCEPT !.thrown = ServiceNotFound(nodeName)]
  ELSE IF nodeName \in st.temp THEN [st EXCEPT !.thrown = CircularDependency(nodeName)]
  ELSE IF nodeName \in st.visited THEN st
  ELSE
    LET s1 == [st EXCEPT !.temp = @ \cup {nodeName}]
        deps == IF MapHas(graph.edges, nodeName) THEN MapGet(graph.edges, nodeName) ELSE <<>>
        s2 == visitDeps(graph, s1, deps, Len(deps))
    IN IF s2.thrown # NoError THEN s2
       ELSE [s2 EXCEPT !.temp = @ \ {nodeName},
                       !.visited = @ \cup {nodeName},
                       !.order = Append(@, nodeName)]

\* the error names another node in progress, if there is one, instead of the
\* node that was entered again
visitReportsOtherGray(graph, st, nodeName) ==
  IF st.thrown # NoError THEN st
  ELSE IF nodeName \in st.temp
       THEN [st EXCEPT !.thrown =
               CircularDependency(IF st.temp = {nodeName} THEN nodeName
                                  ELSE CHOOSE m \in st.temp : m # nodeName)]
  ELSE IF nodeName \in st.visited THEN st
  ELSE
    LET s1 == [st EXCEPT !.temp = @ \cup {nodeName}]
        deps == IF MapHas(graph.edges, nodeName) THEN MapGet(graph.edges, nodeName) ELSE <<>>
        s2 == visitDeps(graph, s1, deps, Len(deps))
    IN IF s2.thrown # NoError THEN s2
       ELSE [s2 EXCEPT !.temp = @ \ {nodeName},
                       !.visited = @ \cup {nodeName},
                       !.order = Append(@, nodeName)]

visit(graph, st, nodeName) ==
  IF st.thrown # NoError THEN st
  ELSE IF nodeName \in st.temp THEN [st EXCEPT !.thrown = CircularDependency(nodeName)]
  ELSE IF nodeName \in st.visited THEN st
  ELSE
    LET s1 == [st EXCEPT !.temp = @ \cup {nodeName}]
        deps == IF MapHas(graph.edges, nodeName) THEN MapGet(graph.edges, nodeName) ELSE <<>>
        s2 == visitDeps(graph, s1, deps, Len(deps))
    IN IF s2.thrown # NoError THEN s2
       ELSE [s2 EXCEPT !.temp = @ \ {nodeName},
                       !.visited = @ \cup {nodeName},
                       !.order = Append(@, nodeName)]

\* visitAll
RECURSIVE visitAll(_, _, _, _)
visitAll(graph, st, keys, i) ==
  IF i = 0 THEN st
  ELSE LET s1 == visitAll(graph, st, keys, i - 1)
       IN IF s1.thrown # NoError THEN s1
          ELSE IF keys[i] \notin s1.visited THEN visit(graph, s1, keys[i])
          ELSE s1

topologicalSort(graph) ==
  visitAll(graph, [visited |-> {}, temp |-> {}, order |-> <<>>, thrown |-> NoError],
           MapKeys(graph.nodes), Len(graph.nodes))

\* ------------------------------------------------------------------------
\* createContainer (src/container.ts): the construction part
\* ------------------------------------------------------------------------
\* the names whose count exceeds 1, in tagCounts iteration order
RECURSIVE duplicatesOf(_, _)
\* every registered name reported, whatever its count
duplicatesOfAny(tagCounts, i) ==
  [k \in 1..i |-> tagCounts[k].key]

\* only the first name whose count exceeds 1 reported
duplicatesOfFirstOnly(tagCounts, i) ==
  IF i = 0 THEN <<>>
  ELSE LET p == duplicatesOf(tagCounts, i - 1)
       IN IF p # <<>> THEN p
          ELSE IF tagCounts[i].value > 1 THEN <<tagCounts[i].key>> ELSE <<>>

duplicatesOf(tagCounts, i) ==
  IF i = 0 THEN <<>>
  ELSE IF tagCounts[i].value > 1
       THEN Append(duplicatesOf(tagCounts, i - 1), tagCounts[i].key)
       ELSE duplicatesOf(tagCounts, i - 1)

\* no cycle validation: the graph is not sorted before the duplicate check
createContainerUnsorted(layer) ==
  LET graph == buildGraph(layer)
      allowDuplicates == isMerged(layer) /\ layer.mergeOptions.given
                         /\ layer.mergeOptions.allowDuplicates
      duplicates == duplicatesOf(graph.tagCounts, Len(graph.tagCounts))
  IN IF ~allowDuplicates /\ Len(duplicates) > 0
     THEN [thrown |-> DuplicateTag(duplicates), graph |-> EmptyGraph]
     ELSE [thrown |-> NoError, graph |-> graph]

\* the duplicate check run before the cycle validation
createContainerDuplicatesFirst(layer) ==
  LET graph == buildGraph(layer)
      sorted == topologicalSort(graph)
      allowDuplicates == isMerged(layer) /\ layer.mergeOptions.given
                         /\ layer.mergeOptions.allowDuplicates
      duplicates == duplicatesOf(graph.tagCounts, Len(graph.tagCounts))
  IN IF ~allowDuplicates /\ Len(duplicates) > 0
     THEN [thrown |-> DuplicateTag(duplicates), graph |-> EmptyGraph]
     ELSE IF sorted.thrown # NoError THEN [thrown |-> sorted.thrown, graph |-> EmptyGraph]
          ELSE [thrown |-> NoError, graph |-> graph]

\* the outcome of createContainer(layer): the error thrown, or the graph the
\* returned container closes over
createContainer(layer) ==
  LET graph == buildGraph(layer)
      sorted == topologicalSort(graph)
      allowDuplicates == isMerged(layer) /\ layer.mergeOptions.given
                         /\ layer.mergeOptions.allowDuplicates
      duplicates == duplicatesOf(graph.tagCounts, Len(graph.tagCounts))
  IN IF sorted.thrown # NoError THEN [thrown |-> sorted.thrown, graph |-> EmptyGraph]
     ELSE IF ~allowDuplicates /\ Len(duplicates) > 0
          THEN [thrown |-> DuplicateTag(duplicates), graph |-> EmptyGraph]
          ELSE [thrown |-> NoError, graph |-> graph]

\* ------------------------------------------------------------------------
\* Runtime (src/container.ts): createService, get
\* ------------------------------------------------------------------------
\* instances: a value layer's stored value, or an object returned by a factory.
\* A factory invocation returns a fresh object (as the factories of the tests
\* do); the object is named by the position of its build event in the log.
NoInstance == [src |-> "none", n |-> 0]
ValueInstance(v) == [src |-> "value", n |-> v]
BuiltInstance(n) == [src |-> "built", n |-> n]

\* one entry of the event log
Event(ev, name, fn, args, instance, thrown) ==
  [ev |-> ev, name |-> name, fn |-> fn, args |-> args, instance |-> instance,
   thrown |-> thrown]

\* interface ServiceDefinition
ServiceDefinition(tg, instance, scope, dispose) ==
  [tag |-> tg, instance |-> instance, scope |-> scope, dispose |-> dispose]

\* a default scope of transient instead of singleton
scopeOfDefaultTransient(options) ==
  IF options.scope = "undefined" THEN "transient" ELSE options.scope

\* every factory treated as a singleton, whatever scope was given
scopeOfAlwaysSingleton(options) == "singleton"

\* impl.options?.scope || 'singleton'
scopeOf(options) == IF options.scope = "undefined" THEN "singleton" ELSE options.scope

\* every instance memoized as a singleton, whatever its scope
recordServiceMemoAll(rt, tg, instance, scope, dispose) ==
  [rt EXCEPT !.singletons = MapSet(@, tg.name, instance),
             !.services = MapSet(@, tg.name, ServiceDefinition(tg, instance, scope, dispose)),
             !.ret = instance]

\* both maps keyed by the tag object, not by its name
recordServiceByIdentity(rt, tg, instance, scope, dispose) ==
  LET key == IF tg.id = 1 THEN tg.name ELSE tg.name \o "#2"
  IN [rt EXCEPT !.singletons = MapSet(@, key, instance),
                !.services = MapSet(@, key, ServiceDefinition(tg, instance, scope, dispose)),
                !.ret = instance]

\* no instance memoized in singletons, whatever its scope
recordServiceNoMemo(rt, tg, instance, scope, dispose) ==
  [rt EXCEPT !.services = MapSet(@, tg.name, ServiceDefinition(tg, instance, scope, dispose)),
             !.ret = instance]

\* the tail of createService: record the instance and return it
recordService(rt, tg, instance, scope, dispose) ==
  IF scope = "singleton"
  THEN [rt EXCEPT !.singletons = MapSet(@, tg.name, instance),
                  !.services = MapSet(@, tg.name, ServiceDefinition(tg, instance, scope, dispose)),
                  !.ret = instance]
  ELSE [rt EXCEPT !.services = MapSet(@, tg.name, ServiceDefinition(tg, instance, scope, dispose)),
                  !.ret = instance]

\* createService(tag, services, singletons, graph); rt carries the two maps,
\* the event log, the error thrown (if any) and the value returned
RECURSIVE createService(_, _, _)
RECURSIVE resolveDependencies(_, _, _, _)
\* dependencies read from the singleton memo, never created on demand
resolveDependenciesMemoOnly(graph, rt, dependencies, i) ==
  [rt |-> rt,
   args |-> [k \in 1..i |-> IF MapHas(rt.singletons, dependencies[k].name)
                            THEN MapGet(rt.singletons, dependencies[k].name)
                            ELSE NoInstance]]

\* what a failed dependency's resolution had recorded is dropped from both maps
resolveDependenciesRollback(graph, rt, dependencies, i) ==
  IF i = 0 THEN [rt |-> rt, args |-> <<>>]
  ELSE LET p == resolveDependencies(graph, rt, dependencies, i - 1)
       IN IF p.rt.thrown # NoError THEN p
          ELSE LET r == createService(graph, p.rt, dependencies[i])
               IN IF r.thrown # NoError
                  THEN [rt |-> [r EXCEPT !.services = <<>>, !.singletons = <<>>],
                        args |-> p.args]
                  ELSE [rt |-> r, args |-> Append(p.args, r.ret)]

\* the resolved instances are handed to the factory last dependency first
resolveDependenciesReversed(graph, rt, dependencies, i) ==
  IF i = 0 THEN [rt |-> rt, args |-> <<>>]
  ELSE LET p == resolveDependencies(graph, rt, dependencies, i - 1)
       IN IF p.rt.thrown # NoError THEN p
          ELSE LET r == createService(graph, p.rt, dependencies[i])
               IN [rt |-> r, args |-> <<r.ret>> \o p.args]

\* dependencies.map(dep => createService(dep, ...)), left to right
resolveDependencies(graph, rt, dependencies, i) ==
  IF i = 0 THEN [rt |-> rt, args |-> <<>>]
  ELSE LET p == resolveDependencies(graph, rt, dependencies, i - 1)
       IN IF p.rt.thrown # NoError THEN p
          ELSE LET r == createService(graph, p.rt, dependencies[i])
               IN [rt |-> r, args |-> Append(p.args, r.ret)]

\* a value layer treated as a factory that returns the stored value: a build
\* is logged for it
createServiceBuildsValue(graph, rt, tg) ==
  IF MapHas(rt.singletons, tg.name)
  THEN [rt EXCEPT !.ret = MapGet(rt.singletons, tg.name)]
  ELSE IF ~MapHas(graph.layerMap, tg.name)
  THEN [rt EXCEPT !.thrown = ServiceNotFound(tg.name), !.ret = NoInstance]
  ELSE
    LET impl == MapGet(graph.layerMap, tg.name)
    IN IF isValue(impl)
       THEN recordService([rt EXCEPT !.log = Append(@,
                             Event("build", tg.name, 0, <<>>, ValueInstance(impl.value), NoError))],
                          tg, ValueInstance(impl.value), "singleton", 0)
       ELSE
         LET p == resolveDependencies(graph, rt, impl.dependencies, Len(impl.dependencies))
             instance == BuiltInstance(Len(p.rt.log) + 1)
             built == [p.rt EXCEPT !.log = Append(@,
                         Event("build", tg.name, impl.factory, p.args, instance, NoError))]
         IN IF p.rt.thrown # NoError THEN [p.rt EXCEPT !.ret = NoInstance]
            ELSE recordService(built, tg, instance, scopeOf(impl.options), impl.options.dispose)

createService(graph, rt, tg) ==
  IF MapHas(rt.singletons, tg.name)
  THEN [rt EXCEPT !.ret = MapGet(rt.singletons, tg.name)]
  ELSE IF ~MapHas(graph.layerMap, tg.name)
  THEN [rt EXCEPT !.thrown = ServiceNotFound(tg.name), !.ret = NoInstance]
  ELSE
    LET impl == MapGet(graph.layerMap, tg.name)
    IN IF isValue(impl)
       THEN recordService(rt, tg, ValueInstance(impl.value), "singleton", 0)
       ELSE
         LET p == resolveDependencies(graph, rt, impl.dependencies, Len(impl.dependencies))
             instance == BuiltInstance(Len(p.rt.log) + 1)
             built == [p.rt EXCEPT !.log = Append(@,
                         Event("build", tg.name, impl.factory, p.args, instance, NoError))]
         IN IF p.rt.thrown # NoError THEN [p.rt EXCEPT !.ret = NoInstance]
            ELSE recordService(built, tg, instance, scopeOf(impl.options), impl.options.dispose)

\* container.get(tag)
get(graph, rt, tg) ==
  IF MapHas(rt.services, tg.name) /\ MapGet(rt.services, tg.name).scope = "singleton"
  THEN [rt EXCEPT !.ret = MapGet(rt.services, tg.name).instance]
  ELSE createService(graph, rt, tg)

\* ------------------------------------------------------------------------
\* State
\* ------------------------------------------------------------------------
VARIABLES
  layer,       \* the layer tree handed to createContainer
  container,   \* the outcome of createContainer: status, error thrown, graph
  services,    \* Map<string, ServiceDefinition> of the container
  singletons,  \* Map<string, unknown> of the container
  log,         \* what has happened so far: builds, gets, dispose steps
  disposals    \* the dispose() calls made so far, with their hook promises

vars == <<layer, container, services, singletons, log, disposals>>

NotCreated == [status |-> "none", thrown |-> NoError, graph |-> EmptyGraph]

\* the container variable after createContainer(l) has run
Created(l) ==
  LET out == createContainer(l)
  IN [status |-> IF out.thrown = NoError THEN "created" ELSE "thrown",
      thrown |-> out.thrown, graph |-> out.graph]

\* the events of one kind
EventsOf(ev) == {i \in 1..Len(log) : log[i].ev = ev}

\* the first node of the graph built while the container is constructed
CreateContainerEager ==
  /\ container.status = "none"
  /\ container' = Created(layer)
  /\ LET made == Created(layer)
         rt0 == [services |-> services, singletons |-> singletons, log |-> log,
                 thrown |-> NoError, ret |-> NoInstance]
         rt == IF made.status = "created" /\ Len(made.graph.nodes) > 0
               THEN createService(made.graph, rt0, made.graph.nodes[1].value)
               ELSE rt0
     IN /\ services' = rt.services
        /\ singletons' = rt.singletons
        /\ log' = rt.log
  /\ UNCHANGED <<layer, disposals>>

\* the caller runs createContainer(layer)
CreateContainer ==
  /\ container.status = "none"
  /\ container' = Created(layer)
  /\ UNCHANGED <<layer, services, singletons, log, disposals>>

\* a get that fails leaves both maps as they were before the call
GetWithinAtomic(tg, max) ==
  /\ container.status = "created"
  /\ Cardinality(EventsOf("get")) < max
  /\ LET rt == get(container.graph,
                   [services |-> services, singletons |-> singletons, log |-> log,
                    thrown |-> NoError, ret |-> NoInstance], tg)
     IN /\ services' = IF rt.thrown # NoError THEN services ELSE rt.services
        /\ singletons' = IF rt.thrown # NoError THEN singletons ELSE rt.singletons
        /\ log' = Append(rt.log, Event("get", tg.name, tg.id, <<>>, rt.ret, rt.thrown))
  /\ UNCHANGED <<layer, container, disposals>>

\* a get that registers the requested tag as a node of the graph
GetWithinRegisters(tg, max) ==
  /\ container.status = "created"
  /\ Cardinality(EventsOf("get")) < max
  /\ LET rt == get(container.graph,
                   [services |-> services, singletons |-> singletons, log |-> log,
                    thrown |-> NoError, ret |-> NoInstance], tg)
     IN /\ services' = rt.services
        /\ singletons' = rt.singletons
        /\ log' = Append(rt.log, Event("get", tg.name, tg.id, <<>>, rt.ret, rt.thrown))
  /\ container' = [container EXCEPT !.graph.nodes = MapSet(@, tg.name, tg)]
  /\ UNCHANGED <<layer, disposals>>

\* the caller runs container.get(tg), as one of at most max get calls; the
\* event logged for the call keeps the identity of the tag object passed
GetWithin(tg, max) ==
  /\ container.status = "created"
  /\ Cardinality(EventsOf("get")) < max
  /\ LET rt == get(container.graph,
                   [services |-> services, singletons |-> singletons, log |-> log,
                    thrown |-> NoError, ret |-> NoInstance], tg)
     IN /\ services' = rt.services
        /\ singletons' = rt.singletons
        /\ log' = Append(rt.log, Event("get", tg.name, tg.id, <<>>, rt.ret, rt.thrown))
  /\ UNCHANGED <<layer, container, disposals>>

\* ------------------------------------------------------------------------
\* dispose (src/container.ts)
\* ------------------------------------------------------------------------
\* a rejection of the promise dispose() returns
DisposeFailure == [kind |-> "DisposeFailure", names |-> <<>>]

\* the loop of dispose(): one promise per recorded service that has a dispose
\* hook, in services iteration order; its callback is queued as a microtask
RECURSIVE disposePromises(_, _)
disposePromises(svcs, i) ==
  IF i = 0 THEN <<>>
  ELSE IF svcs[i].value.dispose # 0
       THEN Append(disposePromises(svcs, i - 1),
                   [name |-> svcs[i].key, disposeFn |-> svcs[i].value.dispose,
                    instance |-> svcs[i].value.instance, state |-> "queued"])
       ELSE disposePromises(svcs, i - 1)

\* the hook invocations of one dispose() call, as log events
hookEvents(promises) ==
  [i \in 1..Len(promises) |->
     Event("hook", promises[i].name, promises[i].disposeFn, <<>>, promises[i].instance, NoError)]

\* the caller runs container.dispose(): the synchronous part, up to the await
DisposeCall ==
  /\ container.status = "created"
  /\ disposals' = Append(disposals,
                         [promises |-> disposePromises(services, Len(services)),
                          status |-> "pending"])
  /\ log' = Append(log, Event("dispose", "", Len(disposals) + 1, <<>>, NoInstance, NoError))
  /\ UNCHANGED <<layer, container, services, singletons>>

\* the microtasks queued by dispose() call d run: each callback invokes its
\* hook with the recorded instance; calls made earlier run their callbacks first
RunHooks(d) ==
  /\ d \in 1..Len(disposals)
  /\ Len(disposals[d].promises) > 0
  /\ \A i \in 1..Len(disposals[d].promises) : disposals[d].promises[i].state = "queued"
  /\ \A e \in 1..(d - 1) : \A i \in 1..Len(disposals[e].promises) :
        disposals[e].promises[i].state # "queued"
  /\ disposals' = [disposals EXCEPT ![d].promises =
        [i \in 1..Len(@) |-> [@[i] EXCEPT !.state = "running"]]]
  /\ log' = log \o hookEvents(disposals[d].promises)
  /\ UNCHANGED <<layer, container, services, singletons>>

\* a running hook of dispose() call d settles: it fulfils (ok) or rejects
SettleHook(d, i, ok) ==
  /\ d \in 1..Len(disposals)
  /\ i \in 1..Len(disposals[d].promises)
  /\ disposals[d].promises[i].state = "running"
  /\ disposals' = [disposals EXCEPT ![d].promises[i].state =
                      IF ok THEN "fulfilled" ELSE "rejected"]
  /\ UNCHANGED <<layer, container, services, singletons, log>>

\* a failed hook ignored: dispose() clears the maps and fulfils once every
\* hook has settled
DisposeResumeSwallows(d) ==
  /\ d \in 1..Len(disposals)
  /\ disposals[d].status = "pending"
  /\ \A i \in 1..Len(disposals[d].promises) :
       disposals[d].promises[i].state \in {"fulfilled", "rejected"}
  /\ disposals' = [disposals EXCEPT ![d].status = "fulfilled"]
  /\ log' = Append(log, Event("disposed", "", d, <<>>, NoInstance, NoError))
  /\ services' = <<>>
  /\ singletons' = <<>>
  /\ UNCHANGED <<layer, container>>

\* the service records cleared but the singleton memo kept
DisposeResumeKeepsMemo(d) ==
  /\ d \in 1..Len(disposals)
  /\ disposals[d].status = "pending"
  /\ LET ps == disposals[d].promises
         rejected == \E i \in 1..Len(ps) : ps[i].state = "rejected"
         fulfilled == \A i \in 1..Len(ps) : ps[i].state = "fulfilled"
     IN /\ rejected \/ fulfilled
        /\ IF rejected
           THEN /\ disposals' = [disposals EXCEPT ![d].status = "rejected"]
                /\ log' = Append(log, Event("disposed", "", d, <<>>, NoInstance, DisposeFailure))
                /\ UNCHANGED <<services, singletons>>
           ELSE /\ disposals' = [disposals EXCEPT ![d].status = "fulfilled"]
                /\ log' = Append(log, Event("disposed", "", d, <<>>, NoInstance, NoError))
                /\ services' = <<>>
                /\ UNCHANGED singletons
  /\ UNCHANGED <<layer, container>>

\* the singleton memo cleared but the service records kept
DisposeResumeKeepsRecords(d) ==
  /\ d \in 1..Len(disposals)
  /\ disposals[d].status = "pending"
  /\ LET ps == disposals[d].promises
         rejected == \E i \in 1..Len(ps) : ps[i].state = "rejected"
         fulfilled == \A i \in 1..Len(ps) : ps[i].state = "fulfilled"
     IN /\ rejected \/ fulfilled
        /\ IF rejected
           THEN /\ disposals' = [disposals EXCEPT ![d].status = "rejected"]
                /\ log' = Append(log, Event("disposed", "", d, <<>>, NoInstance, DisposeFailure))
                /\ UNCHANGED <<services, singletons>>
           ELSE /\ disposals' = [disposals EXCEPT ![d].status = "fulfilled"]
                /\ log' = Append(log, Event("disposed", "", d, <<>>, NoInstance, NoError))
                /\ singletons' = <<>>
                /\ UNCHANGED services
  /\ UNCHANGED <<layer, container>>

\* a dispose() call that queued no hook never resumes
DisposeResumeNeedsHooks(d) ==
  /\ d \in 1..Len(disposals)
  /\ disposals[d].status = "pending"
  /\ Len(disposals[d].promises) > 0
  /\ LET ps == disposals[d].promises
         rejected == \E i \in 1..Len(ps) : ps[i].state = "rejected"
         fulfilled == \A i \in 1..Len(ps) : ps[i].state = "fulfilled"
     IN /\ rejected \/ fulfilled
        /\ IF rejected
           THEN /\ disposals' = [disposals EXCEPT ![d].status = "rejected"]
                /\ log' = Append(log, Event("disposed", "", d, <<>>, NoInstance, DisposeFailure))
                /\ UNCHANGED <<services, singletons>>
           ELSE /\ disposals' = [disposals EXCEPT ![d].status = "fulfilled"]
                /\ log' = Append(log, Event("disposed", "", d, <<>>, NoInstance, NoError))
                /\ services' = <<>>
                /\ singletons' = <<>>
  /\ UNCHANGED <<layer, container>>

\* Promise.all has settled and dispose() call d resumes after its await: on a
\* rejection the await throws and dispose() rejects; otherwise both maps are
\* cleared and dispose() fulfils
DisposeResume(d) ==
  /\ d \in 1..Len(disposals)
  /\ disposals[d].status = "pending"
  /\ LET ps == disposals[d].promises
         rejected == \E i \in 1..Len(ps) : ps[i].state = "rejected"
         fulfilled == \A i \in 1..Len(ps) : ps[i].state = "fulfilled"
     IN /\ rejected \/ fulfilled
        /\ IF rejected
           THEN /\ disposals' = [disposals EXCEPT ![d].status = "rejected"]
                /\ log' = Append(log, Event("disposed", "", d, <<>>, NoInstance, DisposeFailure))
                /\ UNCHANGED <<services, singletons>>
           ELSE /\ disposals' = [disposals EXCEPT ![d].status = "fulfilled"]
                /\ log' = Append(log, Event("disposed", "", d, <<>>, NoInstance, NoError))
                /\ services' = <<>>
                /\ singletons' = <<>>
  /\ UNCHANGED <<layer, container>>

\* ------------------------------------------------------------------------
\* Layer trees the caller may write
\* ------------------------------------------------------------------------
\* dependency lists of at most k names
DepLists(names, k) == UNION {[1..n -> names] : n \in 0..k}

\* the tag object the program holds for a name
TagOf(name) == tag(name, 1)

\* what the caller writes for one leaf layer
ValueDesc(name) ==
  [name |-> name, kind |-> "value", deps |-> <<>>, scope |-> "undefined", hook |-> FALSE]
FactoryDesc(name, deps, scope, hook) ==
  [name |-> name, kind |-> "factory", deps |-> deps, scope |-> scope, hook |-> hook]

\* the i-th leaf layer written by the caller: its value, its factory closure
\* and its dispose closure are objects of their own, named by i
Leaf(desc, i) ==
  IF desc.kind = "value"
  THEN LayerValue(TagOf(desc.name), i)
  ELSE LayerFactory(TagOf(desc.name),
                    [k \in 1..Len(desc.deps) |-> TagOf(desc.deps[k])], i,
                    [scope |-> desc.scope, dispose |-> IF desc.hook THEN i ELSE 0])

LeafLayers(descs) == [i \in 1..Len(descs) |-> Leaf(descs[i], i)]

\* merge options the caller may pass
MergeOptionChoices == {NoMergeOptions, MergeOptions(TRUE)}

\* the leaves merged flat, or with the leaves i..j merged first
FlatTree(ls, rootOptions) == LayerMerge(ls, rootOptions)
NestedTree(ls, i, j, rootOptions, nestedOptions) ==
  LayerMerge(SubSeq(ls, 1, i - 1)
               \o <<LayerMerge(SubSeq(ls, i, j), nestedOptions)>>
               \o SubSeq(ls, j + 1, Len(ls)),
             rootOptions)

\* the shapes a tree over n leaves may have: the bare leaf, a flat merge, or
\* a merge in which the leaves i..j are merged first
Shapes(n) ==
  {[kind |-> "bare", i |-> 1, j |-> 1, rootOptions |-> NoMergeOptions,
    nestedOptions |-> NoMergeOptions] : k \in {1} \cap {n}}
  \cup {[kind |-> "flat", i |-> 1, j |-> n, rootOptions |-> ro,
         nestedOptions |-> NoMergeOptions] : ro \in MergeOptionChoices}
  \cup {[kind |-> "nested", i |-> ij[1], j |-> ij[2], rootOptions |-> ro,
         nestedOptions |-> no] :
          ij \in {p \in (1..n) \X (1..n) : p[1] <= p[2]},
          ro \in MergeOptionChoices, no \in MergeOptionChoices}

TreeOf(ls, shape) ==
  IF shape.kind = "bare" THEN ls[1]
  ELSE IF shape.kind = "flat" THEN FlatTree(ls, shape.rootOptions)
  ELSE NestedTree(ls, shape.i, shape.j, shape.rootOptions, shape.nestedOptions)

\* dependency lists that name no tag twice
NoRepeat(d) == \A i, j \in 1..Len(d) : d[i] = d[j] => i = j

\* trees for the construction checks: any leaves over two names, in any shape
BuildNames == {"A", "B"}
BuildDescs ==
  {ValueDesc(n) : n \in BuildNames}
  \cup {FactoryDesc(n, d, "undefined", FALSE) :
          n \in BuildNames, d \in {e \in DepLists(BuildNames, MaxDeps) : NoRepeat(e)}}

\* ------------------------------------------------------------------------
\* Specifications
\* ------------------------------------------------------------------------
InitRuntime ==
  /\ services = <<>>
  /\ singletons = <<>>
  /\ log = <<>>
  /\ disposals = <<>>

\* construction: the caller has written a layer tree, constructs a container
\* from it and probes the fresh container
InitBuild ==
  /\ \E n \in 1..MaxLeaves : \E descs \in [1..n -> BuildDescs] : \E shape \in Shapes(n) :
        layer = TreeOf(LeafLayers(descs), shape)
  /\ container = NotCreated
  /\ InitRuntime

\* the caller probes the fresh container with one get
Probe(tg) == log = <<>> /\ GetWithin(tg, MaxGets)

NextBuild ==
  \/ CreateContainer
  \/ \E n \in Names : Probe(TagOf(n))

SpecBuild == InitBuild /\ [][NextBuild]_vars

\* running: the container has been constructed from a flat merge that has at
\* most one layer per name and whose factories depend on later names only
\* (every acyclic duplicate-free flat merge is one of these up to renaming)
RunOrder == <<"A", "B", "C">>
After(k) == {RunOrder[m] : m \in (k + 1)..Len(RunOrder)}
AbsentDesc(name) ==
  [name |-> name, kind |-> "absent", deps |-> <<>>, scope |-> "undefined", hook |-> FALSE]
\* the options written for a factory: none, a dispose hook, or transient scope
\* with a dispose hook; B is never written with a hook alone, C never with
\* no options
RunOptions(k) ==
  {o \in {[scope |-> "undefined", hook |-> FALSE], [scope |-> "undefined", hook |-> TRUE],
          [scope |-> "transient", hook |-> TRUE]} :
     /\ (k = 2 => ~(o.scope = "undefined" /\ o.hook))
     /\ (k = 3 => o.hook)}
\* A is a factory; B is a factory or absent; C is a factory, a value or absent
RunChoices(k) ==
  (IF k = 1 THEN {} ELSE {AbsentDesc(RunOrder[k])})
  \cup (IF k = Len(RunOrder) THEN {ValueDesc(RunOrder[k])} ELSE {})
  \cup {FactoryDesc(RunOrder[k], d, o.scope, o.hook) :
          d \in {e \in DepLists(After(k), MaxRunDeps) : NoRepeat(e)}, o \in RunOptions(k)}
IsPresent(desc) == desc.kind # "absent"

Init ==
  /\ \E a \in RunChoices(1) : \E b \in RunChoices(2) : \E c \in RunChoices(3) :
        layer = FlatTree(LeafLayers(SelectSeq(<<a, b, c>>, IsPresent)), NoMergeOptions)
  /\ container = Created(layer)
  /\ InitRuntime

Get(tg) == GetWithin(tg, MaxGets)

\* the caller of this specification awaits a dispose() before its next call,
\* and calls dispose() once
NoneInFlight == \A e \in 1..Len(disposals) : disposals[e].status # "pending"

Next ==
  \/ (NoneInFlight /\ \E n \in Names : Get(TagOf(n)))
  \/ (disposals = <<>> /\ DisposeCall)
  \/ \E d \in 1..Len(disposals) : RunHooks(d)
  \/ \E d \in 1..Len(disposals) : \E i \in 1..Len(disposals[d].promises) :
       \E ok \in BOOLEAN : SettleHook(d, i, ok)
  \/ \E d \in 1..Len(disposals) : DisposeResume(d)

Spec == Init /\ [][Next]_vars

\* tag objects: the caller has called tag(name) twice for each name and holds
\* two distinct objects that share the name
TagIds == {1, 2}
\* the leaf layers written with these tag objects: A is a value or a factory
\* that may depend on B, B is a value or a factory
TagLeafChoices ==
  {[tag |-> tag(n, id), kind |-> "value", deps |-> <<>>] : n \in BuildNames, id \in TagIds}
  \cup {[tag |-> tag(n, id), kind |-> "factory", deps |-> <<>>] : n \in BuildNames, id \in TagIds}
  \cup {[tag |-> tag("A", id), kind |-> "factory", deps |-> <<tag("B", k)>>] :
          id \in TagIds, k \in TagIds}
TagLeaf(c, i) ==
  IF c.kind = "value" THEN LayerValue(c.tag, i)
  ELSE LayerFactory(c.tag, c.deps, i, NoOptions)

\* tag identity: the container has been constructed from a flat merge of such
\* leaves, and the caller calls get with any of its tag objects
InitTags ==
  /\ \E n \in 1..MaxLeaves : \E cs \in [1..n -> TagLeafChoices] :
       \E ro \in MergeOptionChoices :
         layer = FlatTree([i \in 1..n |-> TagLeaf(cs[i], i)], ro)
  /\ container = Created(layer)
  /\ InitRuntime

GetAs(tg) == GetWithin(tg, MaxGets)

NextTags == \E n \in BuildNames : \E id \in TagIds : GetAs(tag(n, id))

SpecTags == InitTags /\ [][NextTags]_vars

\* ------------------------------------------------------------------------
\* Reading a layer tree and the log (used by the properties below)
\* ------------------------------------------------------------------------
\* the value/factory layers of a tree, depth first, left to right
RECURSIVE LeavesOf(_)
RECURSIVE LeavesOfAll(_)
LeavesOfAll(ls) == IF ls = <<>> THEN <<>> ELSE LeavesOf(Head(ls)) \o LeavesOfAll(Tail(ls))
LeavesOf(l) == IF l.type = "merged" THEN LeavesOfAll(l.layers) ELSE <<l>>

\* the names some layer of the tree registers
Registered(l) == LET ls == LeavesOf(l) IN {ls[i].tag.name : i \in 1..Len(ls)}

\* the last layer of the tree that registers name n
LastLeaf(l, n) ==
  LET ls == LeavesOf(l)
      last == CHOOSE i \in 1..Len(ls) :
                /\ ls[i].tag.name = n
                /\ \A j \in (i + 1)..Len(ls) : ls[j].tag.name # n
  IN ls[last]

\* the names a layer declares as dependencies
DepsOfLeaf(leaf) == {leaf.dependencies[k].name : k \in 1..Len(leaf.dependencies)}

\* the dependency graph of a tree: each registered name depends on what its
\* last-registered layer declares
DepGraph(l) ==
  LET registered == Registered(l)
  IN [n \in Names |-> IF n \in registered THEN DepsOfLeaf(LastLeaf(l, n)) ELSE {}]

\* every declared dependency of every layer of the tree, whether or not a
\* later layer of the same name overrides it
AllDeclared(l) ==
  LET ls == LeavesOf(l)
  IN [n \in Names |-> UNION {DepsOfLeaf(ls[i]) :
                               i \in {j \in 1..Len(ls) : ls[j].tag.name = n}}]

\* the names reachable from n along one or more edges of E
RECURSIVE ReachWithin(_, _, _)
ReachWithin(E, from, k) ==
  IF k = 0 THEN from
  ELSE ReachWithin(E, from \cup UNION {E[m] : m \in from \cap DOMAIN E}, k - 1)
Reach(E, n) == ReachWithin(E, E[n], Cardinality(Names))
HasCycle(E) == \E n \in Names : n \in Reach(E, n)

\* n and everything n depends on, directly or transitively
Needs(l, n) == {n} \cup Reach(DepGraph(l), n)

\* the tree registers some name more than once
HasDuplicate(l) ==
  LET ls == LeavesOf(l)
  IN \E i, j \in 1..Len(ls) : i # j /\ ls[i].tag.name = ls[j].tag.name

\* the effective scope of the factory layer registered last for n
IsFactoryName(l, n) == n \in Registered(l) /\ LastLeaf(l, n).type = "factory"
IsSingletonFactory(l, n) ==
  IsFactoryName(l, n) /\ LastLeaf(l, n).options.scope \in {"undefined", "singleton"}
IsTransientFactory(l, n) ==
  IsFactoryName(l, n) /\ LastLeaf(l, n).options.scope = "transient"

\* log positions
Builds == EventsOf("build")
GetEvents == EventsOf("get")
\* the positions at which a dispose() cleared the container's maps
Clears == {i \in 1..Len(log) : log[i].ev = "disposed" /\ log[i].thrown = NoError}
\* two log positions with no clearing of the maps between them
SameEpoch(i, j) == \A c \in Clears : (c < i /\ c < j) \/ (c > i /\ c > j)
\* the builds that ran during the get that returned at position g
PrevGet(g) == IF \E h \in GetEvents : h < g
              THEN CHOOSE h \in GetEvents : h < g /\ \A k \in GetEvents : k < g => k <= h
              ELSE 0
BuildsDuring(g) == {b \in Builds : PrevGet(g) < b /\ b < g}
Returned(g) == log[g].thrown = NoError

\* what the tree makes of each name: "singleton" or "transient" for a
\* factory, "value", or "none" for a name no layer registers
KindOf(l) ==
  LET registered == Registered(l)
  IN [n \in Names |->
        IF n \notin registered THEN "none"
        ELSE IF LastLeaf(l, n).type = "value" THEN "value"
        ELSE IF LastLeaf(l, n).options.scope = "transient" THEN "transient"
        ELSE "singleton"]
\* the last-registered layer of each registered name
WinnerOf(l) == [n \in Registered(l) |-> LastLeaf(l, n)]
\* for each log position, the clearings of the maps that precede it
EpochOf == LET clears == Clears
           IN [i \in 1..Len(log) |-> Cardinality({c \in clears : c < i})]
\* for each log position, the get call that wrote it or was running then
\* (0 for the events of a dispose that follow the last get)
GetAt == LET gets == GetEvents
         IN [i \in 1..Len(log) |->
               IF \E g \in gets : g >= i
               THEN CHOOSE g \in gets : g >= i /\ \A h \in gets : h >= i => g <= h
               ELSE 0]

\* ------------------------------------------------------------------------
\* Properties
\* ------------------------------------------------------------------------
\* C1: for a singleton-scoped factory tag (scope not given, or singleton),
\* all get(tag) calls that return with no clearing dispose between them
\* return the identical instance, and the tag's build function has run
\* exactly once since the maps were last cleared.
C1_SingletonIdempotent ==
  LET kind == KindOf(layer)
      epoch == EpochOf
      gets == GetEvents
      builds == Builds
  IN \A g \in gets :
       (Returned(g) /\ kind[log[g].name] = "singleton") =>
         /\ Cardinality({b \in builds : b < g /\ epoch[b] = epoch[g]
                                        /\ log[b].name = log[g].name}) = 1
         /\ \A h \in gets :
              (h < g /\ epoch[h] = epoch[g] /\ log[h].name = log[g].name /\ Returned(h))
                => log[h].instance = log[g].instance

\* a singleton-scoped factory tag has been returned by two get calls
C1_Witness ==
  \E g, h \in GetEvents :
    /\ h < g /\ SameEpoch(h, g) /\ log[h].name = log[g].name
    /\ Returned(g) /\ Returned(h)
    /\ IsSingletonFactory(layer, log[g].name)
    /\ log[g].instance.src = "built"

\* C2: for a transient-scoped tag, every get(tag) that returns has run the
\* tag's build function exactly once, returns the instance that build made,
\* and that instance differs from the one returned by every earlier get(tag).
C2_TransientDistinct ==
  LET kind == KindOf(layer)
      getAt == GetAt
      gets == GetEvents
      builds == Builds
  IN \A g \in gets :
       (Returned(g) /\ kind[log[g].name] = "transient") =>
         LET mine == {b \in builds : getAt[b] = g /\ log[b].name = log[g].name}
         IN /\ Cardinality(mine) = 1
            /\ \E b \in mine : log[b].instance = log[g].instance
            /\ \A h \in gets :
                 (h < g /\ log[h].name = log[g].name) => log[h].instance # log[g].instance

\* a transient-scoped tag has been returned by two get calls
C2_Witness ==
  \E g, h \in GetEvents :
    /\ h < g /\ log[h].name = log[g].name /\ Returned(g) /\ Returned(h)
    /\ IsTransientFactory(layer, log[g].name)

\* the declared dependency names of the layer that built at log position b
DeclaredOf(b) == LastLeaf(layer, log[b].name).dependencies
\* the get call during which log position b was written
GetOf(b) == CHOOSE g \in GetEvents : g > b /\ \A h \in GetEvents : h > b => g <= h
\* the build at position b received the instance built at position zb
Receives(b, zb) == \E k \in 1..Len(log[b].args) : log[b].args[k] = log[zb].instance

\* C3: a singleton factory Z is built at most once between clearings of the
\* container, and every build of a service that declares Z as a dependency,
\* in the same get or in a separate one, receives the instance of that one
\* build of Z.
C3_SharedSingletonBuiltOnce ==
  LET kind == KindOf(layer)
      winner == WinnerOf(layer)
      epoch == EpochOf
      builds == Builds
  IN /\ \A b1, b2 \in builds :
          (kind[log[b1].name] = "singleton" /\ log[b1].name = log[b2].name
             /\ epoch[b1] = epoch[b2]) => b1 = b2
     /\ \A b \in builds :
          LET declared == winner[log[b].name].dependencies
          IN \A k \in 1..Len(declared) :
               kind[declared[k].name] = "singleton" =>
                 \E zb \in builds :
                   /\ zb < b /\ epoch[zb] = epoch[b] /\ log[zb].name = declared[k].name
                   /\ log[b].args[k] = log[zb].instance

\* one build of a singleton Z has fed two dependents inside one get (a
\* diamond) and a third build in a separate get
C3_Witness ==
  \E zb, x, y, w \in Builds :
    /\ IsSingletonFactory(layer, log[zb].name)
    /\ log[x].name # log[y].name /\ GetOf(x) = GetOf(y) /\ GetOf(w) # GetOf(x)
    /\ Receives(x, zb) /\ Receives(y, zb) /\ Receives(w, zb)
    /\ Cardinality({b \in Builds : log[b].name = log[zb].name}) = 1

\* the tree is the chain A -> B -> C of singleton factories
IsChain ==
  /\ \A n \in Names : IsSingletonFactory(layer, n)
  /\ DepGraph(layer) = [n \in Names |-> IF n = "A" THEN {"B"}
                                         ELSE IF n = "B" THEN {"C"} ELSE {}]
\* the names of the events logged during the get that returned at position g
NamesDuring(g) == [i \in 1..(g - 1 - PrevGet(g)) |-> log[PrevGet(g) + i].name]

\* C4: every build receives, for each declared dependency in order, an
\* instance whose build completed earlier (during the same get if the
\* dependency is transient) or the stored value of a value layer; for the
\* chain A -> B -> C the first get(A) builds C, then B, then A, and a
\* repeated get(A) builds nothing and returns the same instance.
C4_BuildOrderTopological ==
  LET kind == KindOf(layer)
      winner == WinnerOf(layer)
      epoch == EpochOf
      getAt == GetAt
      gets == GetEvents
      builds == Builds
  IN /\ \A b \in builds :
          LET declared == winner[log[b].name].dependencies
          IN /\ Len(log[b].args) = Len(declared)
             /\ \A k \in 1..Len(declared) :
                  LET d == declared[k].name
                  IN IF kind[d] \in {"singleton", "transient"}
                     THEN \E db \in builds :
                            /\ db < b /\ epoch[db] = epoch[b] /\ log[db].name = d
                            /\ log[db].instance = log[b].args[k]
                            /\ kind[d] = "transient" => getAt[db] = getAt[b]
                     ELSE log[b].args[k] = ValueInstance(winner[d].value)
     /\ IsChain =>
          \A g \in gets :
            log[g].name = "A" =>
              IF \E h \in 1..(g - 1) : epoch[h] = epoch[g] /\ log[h].ev \in {"get", "build"}
              THEN (\E h \in gets : h < g /\ epoch[h] = epoch[g] /\ log[h].name = "A")
                     => /\ \A b \in builds : getAt[b] # g
                        /\ \A h \in gets :
                             (h < g /\ epoch[h] = epoch[g] /\ log[h].name = "A")
                               => log[h].instance = log[g].instance
              ELSE /\ NamesDuring(g) = <<"C", "B", "A">>
                   /\ \A i \in (PrevGet(g) + 1)..(g - 1) : i \in builds

\* the chain's head has been requested twice, the first time on an empty
\* container
C4_Witness ==
  /\ IsChain
  /\ \E g, h \in GetEvents :
       /\ h < g /\ SameEpoch(h, g) /\ log[h].name = "A" /\ log[g].name = "A"
       /\ PrevGet(h) = 0 /\ Returned(g)

\* the mergeOptions of every merge node of a tree
RECURSIVE MergeOptionsIn(_)
MergeOptionsIn(l) ==
  IF l.type = "merged"
  THEN {l.mergeOptions} \cup UNION {MergeOptionsIn(l.layers[i]) : i \in 1..Len(l.layers)}
  ELSE {}
Allows(o) == o.given /\ o.allowDuplicates
RootAllows(l) == l.type = "merged" /\ Allows(l.mergeOptions)
AllowedNowhere(l) == \A o \in MergeOptionsIn(l) : ~Allows(o)
AllowedEverywhere(l) == l.type = "merged" /\ \A o \in MergeOptionsIn(l) : Allows(o)

\* the edges the graph builder keeps for a name: the dependencies of the
\* last layer of that name that declares any
RecordedEdges(l) ==
  LET ls == LeavesOf(l)
      declaring(n) == {i \in 1..Len(ls) : ls[i].tag.name = n /\ Len(ls[i].dependencies) > 0}
      last(n) == CHOOSE i \in declaring(n) : \A j \in declaring(n) : j <= i
  IN [n \in Names |-> IF declaring(n) = {} THEN {} ELSE DepsOfLeaf(ls[last(n)])]

\* createContainer(layer) has run
Constructed == container.status # "none"
Succeeded == container.status = "created"
FailedWith(kind) == container.status = "thrown" /\ container.thrown.kind = kind

\* C5: a tree whose dependency graph (each name with the dependencies of its
\* last-registered layer) has a cycle, a self-dependency included, makes
\* createContainer throw CircularDependency; no container is returned, so no
\* get ever runs on it, whichever services the caller meant to request.
C5_CycleRejected ==
  (Constructed /\ HasCycle(DepGraph(layer))) =>
    /\ FailedWith("CircularDependency")
    /\ log = <<>>

\* createContainer has rejected a tree in which A and B depend on each other
C5_Witness ==
  /\ FailedWith("CircularDependency")
  /\ DepGraph(layer)["A"] = {"B"} /\ DepGraph(layer)["B"] = {"A"}

\* C6 as stated: a tree that registers a name twice, with allowDuplicates set
\* on no merge, makes createContainer throw DuplicateTag.
C6_DuplicateTagAlways ==
  (Constructed /\ HasDuplicate(layer) /\ AllowedNowhere(layer)) =>
    FailedWith("DuplicateTag")

\* C6: a tree that registers a name twice, with allowDuplicates set on no
\* merge, makes createContainer throw: CircularDependency if the recorded
\* dependency edges have a cycle (cycle validation runs first), DuplicateTag
\* otherwise.
C6_DuplicateRejected ==
  (Constructed /\ HasDuplicate(layer) /\ AllowedNowhere(layer)) =>
    IF HasCycle(RecordedEdges(layer))
    THEN FailedWith("CircularDependency")
    ELSE FailedWith("DuplicateTag")

\* createContainer has thrown DuplicateTag for a tree with a repeated name
C6_Witness ==
  /\ FailedWith("DuplicateTag")
  /\ HasDuplicate(layer) /\ AllowedNowhere(layer)

\* the record get(n) leaves in services is the one the layer prescribes
RecordOf(leaf, instance) ==
  IF leaf.type = "value"
  THEN ServiceDefinition(leaf.tag, instance, "singleton", 0)
  ELSE ServiceDefinition(leaf.tag, instance,
                         IF leaf.options.scope = "transient" THEN "transient" ELSE "singleton",
                         leaf.options.dispose)

\* C7: a tree that registers a name twice, with allowDuplicates set on its
\* merges and an acyclic dependency graph, makes createContainer succeed, and
\* a get of a repeated name whose dependencies are all registered returns the
\* instance of the last-registered layer of that name (the stored value, or
\* what that layer's factory built), recorded with that layer's scope and
\* dispose hook.
C7_LastRegisteredWins ==
  (Constructed /\ HasDuplicate(layer) /\ AllowedEverywhere(layer)
     /\ ~HasCycle(DepGraph(layer))) =>
    /\ Succeeded
    /\ \A g \in GetEvents :
         LET n == log[g].name
         IN (n \in Registered(layer) /\ Needs(layer, n) \subseteq Registered(layer)) =>
              LET last == LastLeaf(layer, n)
              IN /\ Returned(g)
                 /\ IF last.type = "value"
                    THEN log[g].instance = ValueInstance(last.value)
                    ELSE \E b \in BuildsDuring(g) :
                           /\ log[b].name = n /\ log[b].fn = last.factory
                           /\ log[b].instance = log[g].instance
                 /\ MapHas(services, n)
                 /\ MapGet(services, n) = RecordOf(last, log[g].instance)

\* C8: a declared dependency that no layer registers does not make
\* createContainer fail (it fails only on a recorded cycle or a disallowed
\* duplicate); a get throws exactly when the requested name or something it
\* transitively depends on is unregistered, and then the error is
\* ServiceNotFound naming one of those unregistered names.
C8_MissingDependencyLazy ==
  /\ (Constructed /\ ~HasCycle(RecordedEdges(layer))
        /\ (~HasDuplicate(layer) \/ RootAllows(layer))) => Succeeded
  /\ \A g \in GetEvents :
       LET missing == Needs(layer, log[g].name) \ Registered(layer)
       IN IF missing = {}
          THEN Returned(g)
          ELSE /\ log[g].thrown.kind = "ServiceNotFound"
               /\ log[g].thrown.names[1] \in missing
               /\ log[g].instance = NoInstance

\* a get of a registered factory has thrown ServiceNotFound naming a
\* dependency that no layer registers
C8_Witness ==
  \E g \in GetEvents :
    /\ log[g].name \in Registered(layer)
    /\ log[g].thrown.kind = "ServiceNotFound"
    /\ log[g].thrown.names[1] # log[g].name
    /\ log[g].thrown.names[1] \in DepGraph(layer)[log[g].name] \ Registered(layer)

\* C9 as stated: an acyclic tree that registers no name twice makes
\* createContainer succeed, and get returns an instance for every registered
\* name.
C9_EveryTagResolvable ==
  (Constructed /\ ~HasCycle(DepGraph(layer)) /\ ~HasDuplicate(layer)) =>
    /\ Succeeded
    /\ \A g \in GetEvents :
         log[g].name \in Registered(layer) =>
           (Returned(g) /\ log[g].instance # NoInstance)

\* C9: an acyclic tree that registers no name twice makes createContainer
\* succeed, and get returns an instance for every registered name whose
\* transitive dependencies are all registered.
C9_EveryClosedTagResolvable ==
  (Constructed /\ ~HasCycle(DepGraph(layer)) /\ ~HasDuplicate(layer)) =>
    /\ Succeeded
    /\ \A g \in GetEvents :
         (log[g].name \in Registered(layer)
            /\ Needs(layer, log[g].name) \subseteq Registered(layer)) =>
           (Returned(g) /\ log[g].instance # NoInstance)

\* a get has returned the instance of a factory that has a registered
\* dependency, in an acyclic tree that registers no name twice
C9_Witness ==
  /\ ~HasCycle(DepGraph(layer)) /\ ~HasDuplicate(layer)
  /\ \E g \in GetEvents :
       /\ Returned(g) /\ log[g].instance.src = "built"
       /\ DepGraph(layer)[log[g].name] # {}

\* the log position of dispose() call d
CallOf(d) == CHOOSE c \in EventsOf("dispose") : log[c].fn = d
\* the dispose hook declared by the layer that built at log position b
HookOf(b) == LastLeaf(layer, log[b].name).options.dispose

\* C10: once a dispose() call has completed, the dispose hook of every
\* instance built before the call (since the previous clearing) has been
\* invoked exactly once with that instance, and every hook invocation is for
\* an instance that was built.
C10_DisposalComplete ==
  /\ \A e \in EventsOf("disposed") :
       \A b \in Builds :
         (b < CallOf(log[e].fn) /\ SameEpoch(b, CallOf(log[e].fn)) /\ HookOf(b) # 0) =>
           Cardinality({h \in EventsOf("hook") :
                          /\ log[h].instance = log[b].instance
                          /\ log[h].fn = HookOf(b)}) = 1
  /\ \A h \in EventsOf("hook") :
       \E b \in Builds : b < h /\ log[b].instance = log[h].instance /\ log[h].fn = HookOf(b)

\* the hook invocations logged between dispose() call d and its settling at e
HooksBetween(c, e) == {h \in EventsOf("hook") : c < h /\ h < e}
\* the builds of name n recorded for the dispose() called at log position c
BuiltFor(n, c) == {b \in Builds : b < c /\ SameEpoch(b, c) /\ log[b].name = n}

\* C11: once a dispose() call has settled, a transient factory with a dispose
\* hook that was instantiated n times since the previous clearing has had its
\* hook invoked n times, once with each of the n instances.
C11_TransientHooksPerInstance ==
  LET kind == KindOf(layer)
      winner == WinnerOf(layer)
  IN \A e \in EventsOf("disposed") :
       \A n \in Names :
         (kind[n] = "transient" /\ winner[n].options.dispose # 0) =>
           LET c == CallOf(log[e].fn)
               hooks == {h \in HooksBetween(c, e) : log[h].name = n}
           IN /\ Cardinality(hooks) = Cardinality(BuiltFor(n, c))
              /\ {log[h].instance : h \in hooks} = {log[b].instance : b \in BuiltFor(n, c)}

\* C12: the hooks a dispose() call invokes are started in reverse order of
\* creation: of two hooks it starts, the one started first is for the
\* instance that was built later.
C12_ReverseCreationOrder ==
  \A e \in EventsOf("disposed") :
    \A h1, h2 \in HooksBetween(CallOf(log[e].fn), e) :
      h1 < h2 => log[h1].instance.n > log[h2].instance.n

\* C13: when a dispose() call has just settled, fulfilled or rejected, the
\* singleton memo and the service records are both empty.
C13_ClearedWhenSettled ==
  (log # <<>> /\ log[Len(log)].ev = "disposed") =>
    (services = <<>> /\ singletons = <<>>)

\* some hook of dispose() call d has thrown or rejected
HookFailed(d) ==
  \E i \in 1..Len(disposals[d].promises) : disposals[d].promises[i].state = "rejected"

\* C14: a dispose() call rejects exactly when one of its hooks has thrown or
\* rejected; by then every hook recorded for the call has been invoked, and a
\* hook still running after the rejection can run on to its completion.
C14_FailureSurfaced ==
  \A d \in 1..Len(disposals) :
    LET ps == disposals[d].promises
    IN /\ disposals[d].status = "rejected" => HookFailed(d)
       /\ (HookFailed(d) /\ disposals[d].status # "pending") =>
            disposals[d].status = "rejected"
       /\ HookFailed(d) =>
            /\ \A i \in 1..Len(ps) : ps[i].state # "queued"
            /\ \A i \in 1..Len(ps) :
                 \E h \in EventsOf("hook") :
                   /\ h > CallOf(d)
                   /\ log[h].instance = ps[i].instance /\ log[h].fn = ps[i].disposeFn
       /\ \A i \in 1..Len(ps) :
            ps[i].state = "running" =>
              (ENABLED SettleHook(d, i, TRUE) /\ ENABLED SettleHook(d, i, FALSE))

\* a dispose() call has rejected because one hook failed, and another hook of
\* the same call has run to completion
C14_Witness ==
  \E d \in 1..Len(disposals) :
    /\ disposals[d].status = "rejected"
    /\ \E i, j \in 1..Len(disposals[d].promises) :
         /\ disposals[d].promises[i].state = "rejected"
         /\ disposals[d].promises[j].state = "fulfilled"

\* the registered names whose dependencies, direct and transitive, are all
\* registered
Closed(l) ==
  LET registered == Registered(l)
      graph == DepGraph(l)
  IN {n \in registered : Reach(graph, n) \subseteq registered}

\* C15: after a get has failed with ServiceNotFound, a get of a name whose
\* dependencies are all registered still returns; a singleton it returns has
\* been built exactly once since the last clearing and is the instance every
\* other get of that name returned, a transient is built by that get, and no
\* singleton is built twice.
C15_FailedGetIsLocal ==
  LET kind == KindOf(layer)
      closed == Closed(layer)
      epoch == EpochOf
      getAt == GetAt
      gets == GetEvents
      builds == Builds
      failed == {h \in gets : log[h].thrown.kind = "ServiceNotFound"}
  IN \A g \in gets :
       (\E h \in failed : h < g /\ epoch[h] = epoch[g]) =>
         /\ log[g].name \in closed =>
              /\ Returned(g)
              /\ kind[log[g].name] = "singleton" =>
                   /\ \E b \in builds :
                        /\ b < g /\ epoch[b] = epoch[g]
                        /\ log[b].name = log[g].name /\ log[b].instance = log[g].instance
                   /\ \A h \in gets :
                        (epoch[h] = epoch[g] /\ log[h].name = log[g].name /\ Returned(h))
                          => log[h].instance = log[g].instance
              /\ kind[log[g].name] = "transient" =>
                   \E b \in builds :
                     /\ getAt[b] = g
                     /\ log[b].name = log[g].name /\ log[b].instance = log[g].instance
         /\ \A b1, b2 \in builds :
              (b1 < g /\ b2 < g /\ kind[log[b1].name] = "singleton"
                 /\ log[b1].name = log[b2].name /\ epoch[b1] = epoch[b2]) => b1 = b2

\* a get has failed with ServiceNotFound after it built a singleton, and a
\* later get has returned that singleton without building it again
C15_Witness ==
  \E h, g \in GetEvents :
    /\ h < g /\ SameEpoch(h, g)
    /\ log[h].thrown.kind = "ServiceNotFound" /\ Returned(g)
    /\ IsSingletonFactory(layer, log[g].name)
    /\ \E b \in Builds : b < h /\ log[b].instance = log[g].instance

\* C16: constructing the container runs no factory and no dispose hook (the
\* log stays empty until the first get), and every build happens during a
\* get whose requested name is, or depends directly or transitively on, the
\* name built; a name no get requires has no build.
C16_BuildOnlyOnDemand ==
  LET getAt == GetAt
      graph == DepGraph(layer)
      required == UNION {{log[g].name} \cup Reach(graph, log[g].name) : g \in GetEvents}
  IN /\ GetEvents = {} => log = <<>>
     /\ \A b \in Builds :
          /\ getAt[b] # 0
          /\ log[b].name \in {log[getAt[b]].name} \cup Reach(graph, log[getAt[b]].name)
     /\ \A n \in Names \ required : \A b \in Builds : log[b].name # n

\* a get has returned a built instance while another registered factory,
\* which that get does not require, has not been built
C16_Witness ==
  /\ Succeeded
  /\ \E g \in GetEvents :
       /\ Returned(g) /\ log[g].instance.src = "built"
       /\ \E m \in Registered(layer) :
            /\ IsFactoryName(layer, m)
            /\ m \notin Needs(layer, log[g].name)
            /\ \A b \in Builds : log[b].name # m

\* C17: a get of a singleton factory that returns after a dispose() has
\* fulfilled (and so cleared the maps) returns an instance built after that
\* clearing, as are the instances of all singleton factories it depends on;
\* the instance differs from every instance built before the clearing, and
\* until the next clearing it is memoized in singletons and recorded in
\* services with its layer's dispose hook.
C17_RebuildAfterDispose ==
  LET kind == KindOf(layer)
      winner == WinnerOf(layer)
      graph == DepGraph(layer)
      epoch == EpochOf
      builds == Builds
      now == Cardinality(Clears)
  IN \A g \in GetEvents :
       (epoch[g] >= 1 /\ Returned(g) /\ kind[log[g].name] = "singleton") =>
         /\ \A n \in {log[g].name} \cup Reach(graph, log[g].name) :
              kind[n] = "singleton" =>
                \E b \in builds : b < g /\ epoch[b] = epoch[g] /\ log[b].name = n
         /\ \E b \in builds :
              /\ b < g /\ epoch[b] = epoch[g]
              /\ log[b].name = log[g].name /\ log[b].instance = log[g].instance
         /\ \A b \in builds : epoch[b] < epoch[g] => log[b].instance # log[g].instance
         /\ epoch[g] = now =>
              /\ MapHas(singletons, log[g].name)
              /\ MapGet(singletons, log[g].name) = log[g].instance
              /\ MapHas(services, log[g].name)
              /\ MapGet(services, log[g].name) = RecordOf(winner[log[g].name], log[g].instance)

\* a singleton factory with a dependency has been returned by a get before a
\* fulfilled dispose() and by a get after it
C17_Witness ==
  \E h, g \in GetEvents :
    /\ h < g /\ ~SameEpoch(h, g)
    /\ log[h].name = log[g].name /\ Returned(h) /\ Returned(g)
    /\ IsSingletonFactory(layer, log[g].name)
    /\ DepGraph(layer)[log[g].name] # {}

\* two layers of the tree register one name under distinct tag objects
DistinctTagsCollide(l) ==
  LET ls == LeavesOf(l)
  IN \E i, j \in 1..Len(ls) : ls[i].tag.name = ls[j].tag.name /\ ls[i].tag # ls[j].tag

\* C18: layers registered under distinct tag objects that share a name count
\* as a duplicate of that name (DuplicateTag unless the root merge allows
\* duplicates); and a get resolves by the name of the tag object it is given:
\* whichever tag object of a name is passed, the get returns the instance of
\* the layer registered last under that name, one singleton instance built
\* at most once, the same for all gets of the name.
C18_KeyedByName ==
  LET closed == Closed(layer)
      winner == WinnerOf(layer)
      gets == GetEvents
      builds == Builds
  IN /\ (DistinctTagsCollide(layer) /\ ~RootAllows(layer)) => FailedWith("DuplicateTag")
     /\ \A g \in gets :
          log[g].name \in closed =>
            /\ Returned(g)
            /\ IF winner[log[g].name].type = "value"
               THEN log[g].instance = ValueInstance(winner[log[g].name].value)
               ELSE \E b \in builds :
                      /\ b < g /\ log[b].name = log[g].name
                      /\ log[b].fn = winner[log[g].name].factory
                      /\ log[b].instance = log[g].instance
            /\ \A h \in gets : log[h].name = log[g].name => log[h].instance = log[g].instance
     /\ \A b1, b2 \in builds : log[b1].name = log[b2].name => b1 = b2

\* two gets given distinct tag objects of one name have returned the built
\* instance of a factory registered under that name
C18_Witness ==
  \E g, h \in GetEvents :
    /\ log[g].name = log[h].name /\ log[g].fn # log[h].fn
    /\ Returned(g) /\ Returned(h)
    /\ log[g].instance.src = "built" /\ log[g].instance = log[h].instance

\* C19: when some merge node of the tree, the root or a nested one, was
\* created with allowDuplicates, a repeated name does not make
\* createContainer throw DuplicateTag.
C19_AllowedAnywhere ==
  (Constructed /\ HasDuplicate(layer) /\ \E o \in MergeOptionsIn(layer) : Allows(o)) =>
    ~FailedWith("DuplicateTag")

\* the outgoing edges the constructed graph holds for name n
EdgesIn(graph, n) ==
  IF MapHas(graph.edges, n)
  THEN {MapGet(graph.edges, n)[k] : k \in 1..Len(MapGet(graph.edges, n))}
  ELSE {}

\* C20: for a tree that repeats a name under a root merge that allows
\* duplicates, the edges the graph holds for each name are exactly the
\* declared dependencies of the layer registered last under that name, and
\* cycle validation rejects the tree only if those dependencies form a cycle.
C20_EdgesOverwritten ==
  (Constructed /\ HasDuplicate(layer) /\ RootAllows(layer)) =>
    /\ Succeeded => \A n \in Names : EdgesIn(container.graph, n) = DepGraph(layer)[n]
    /\ FailedWith("CircularDependency") => HasCycle(DepGraph(layer))

\* C21: every hook invocation follows a dispose() call, and a dispose() call
\* that has settled, fulfilled or rejected, has no hook that is still queued
\* or running.
C21_SettlesAfterAllHooks ==
  /\ \A h \in EventsOf("hook") : \E c \in EventsOf("dispose") : c < h
  /\ \A d \in 1..Len(disposals) :
       disposals[d].status # "pending" =>
         \A i \in 1..Len(disposals[d].promises) :
           disposals[d].promises[i].state \in {"fulfilled", "rejected"}

\* the instance is one of the service named n: the stored value of the value
\* layer of n, or the object returned by a build of n
InstanceOf(inst, n, winner) ==
  IF inst.src = "value"
  THEN n \in DOMAIN winner /\ winner[n].type = "value" /\ inst.n = winner[n].value
  ELSE /\ inst.src = "built" /\ inst.n \in 1..Len(log)
       /\ log[inst.n].ev = "build" /\ log[inst.n].name = n

\* C22: every build is invoked with exactly one argument per declared
\* dependency, and the k-th argument is an instance of the k-th declared
\* dependency.
C22_ArgumentsInDeclaredOrder ==
  LET winner == WinnerOf(layer)
  IN \A b \in Builds :
       LET declared == winner[log[b].name].dependencies
       IN /\ DOMAIN log[b].args = 1..Len(declared)
          /\ \A k \in 1..Len(declared) :
               InstanceOf(log[b].args[k], declared[k].name, winner)

\* a factory declared with the dependencies C, B in that order has been built
C22_Witness ==
  \E b \in Builds :
    /\ Len(DeclaredOf(b)) = 2
    /\ DeclaredOf(b)[1].name = "C" /\ DeclaredOf(b)[2].name = "B"
    /\ log[b].args[1] # log[b].args[2]

\* C23: for a name registered as a value layer, every get returns the stored
\* value, no build is ever invoked for it, its record is a singleton that is
\* memoized and has no dispose hook, and no dispose() call invokes a hook
\* for it.
C23_ValueLayer ==
  LET kind == KindOf(layer)
      winner == WinnerOf(layer)
  IN \A n \in Names :
       kind[n] = "value" =>
         /\ \A g \in GetEvents :
              log[g].name = n =>
                /\ log[g].thrown = NoError
                /\ log[g].instance = ValueInstance(winner[n].value)
         /\ \A b \in Builds : log[b].name # n
         /\ \A h \in EventsOf("hook") : log[h].name # n
         /\ \A d \in 1..Len(disposals) : \A i \in 1..Len(disposals[d].promises) :
              disposals[d].promises[i].name # n
         /\ MapHas(services, n) =>
              /\ MapGet(services, n).scope = "singleton"
              /\ MapGet(services, n).dispose = 0
              /\ MapGet(services, n).instance = ValueInstance(winner[n].value)
              /\ MapHas(singletons, n)
              /\ MapGet(singletons, n) = ValueInstance(winner[n].value)

\* a value layer has been requested before and after a dispose() that
\* cleared the container while the value was recorded
C23_Witness ==
  \E g, h \in GetEvents : \E c \in EventsOf("dispose") : \E e \in Clears :
    /\ KindOf(layer)[log[g].name] = "value" /\ log[h].name = log[g].name
    /\ g < c /\ c < e /\ e < h
    /\ log[g].instance = log[h].instance
    /\ MapHas(services, log[g].name)

\* ------------------------------------------------------------------------
\* Groupings of a merge of three layers
\* ------------------------------------------------------------------------
\* Layer.merge(a, b, c), Layer.merge(Layer.merge(a, b), c) and
\* Layer.merge(a, Layer.merge(b, c)); the options go to the outer merge
Groupings == {"flat", "left", "right"}
Grouped(ls, grouping, rootOptions) ==
  IF grouping = "flat" THEN FlatTree(ls, rootOptions)
  ELSE IF grouping = "left" THEN NestedTree(ls, 1, 2, rootOptions, NoMergeOptions)
  ELSE NestedTree(ls, 2, 3, rootOptions, NoMergeOptions)

\* the caller has merged three leaves in one of the groupings, constructs a
\* container from the result and probes it
InitMerge ==
  /\ \E a \in BuildDescs : \E b \in BuildDescs : \E c \in BuildDescs :
       \E grouping \in Groupings : \E ro \in MergeOptionChoices :
         layer = Grouped(LeafLayers(<<a, b, c>>), grouping, ro)
  /\ container = NotCreated
  /\ InitRuntime

NextMerge ==
  \/ CreateContainer
  \/ \E n \in Names : Probe(TagOf(n))

SpecMerge == InitMerge /\ [][NextMerge]_vars

\* the outcome of one get on a fresh container constructed from tree t
FreshGet(t, tg) ==
  get(Created(t).graph,
      [services |-> <<>>, singletons |-> <<>>, log |-> <<>>, thrown |-> NoError,
       ret |-> NoInstance], tg)

\* C24: the three groupings of a merge of the same three layers produce the
\* same graph (nodes, edges, layer per name, counts), the same construction
\* outcome and the same result of every get.
C24_MergeAssociative ==
  LET ls == LeavesOf(layer)
  IN \A grouping \in Groupings :
       LET t == Grouped(ls, grouping, layer.mergeOptions)
       IN /\ buildGraph(t) = buildGraph(layer)
          /\ Constructed => Created(t) = container
          /\ \A g \in GetEvents :
               LET r == FreshGet(t, tag(log[g].name, log[g].fn))
               IN /\ r.ret = log[g].instance
                  /\ r.thrown = log[g].thrown
                  /\ r.log = SubSeq(log, 1, g - 1)
                  /\ r.services = services
                  /\ r.singletons = singletons

\* a container constructed from merge(merge(a, b), c) has built a service
\* with a dependency
C24_Witness ==
  /\ Len(layer.layers) = 2 /\ layer.layers[1].type = "merged"
  /\ Succeeded
  /\ \E g \in GetEvents : Returned(g)
  /\ \E b \in Builds : Len(log[b].args) > 0

\* a tree in a nested grouping has failed construction with a duplicate
C24_WitnessFailure ==
  /\ Len(layer.layers) = 2 /\ layer.layers[2].type = "merged"
  /\ FailedWith("DuplicateTag")

\* ------------------------------------------------------------------------
\* Calls of Layer.merge
\* ------------------------------------------------------------------------
\* no layer has been made yet
NoLayer == [type |-> "none"]

\* the layers a caller has at hand: leaves, and a layer merged earlier
Operands ==
  {Leaf(d, 1) : d \in BuildDescs}
  \cup {LayerMerge(<<LayerValue(TagOf("A"), 1), LayerValue(TagOf("B"), 2)>>, MergeOptions(TRUE))}

\* the options a caller may write: none, {}, { allowDuplicates: true } and
\* { allowDuplicates: false }; none is the empty argument list
OptionArgs ==
  {<<>>, <<ObjectLiteral({}, FALSE)>>}
  \cup {<<ObjectLiteral({"allowDuplicates"}, allow)>> : allow \in BOOLEAN}

InitCall ==
  /\ layer = NoLayer
  /\ container = NotCreated
  /\ InitRuntime

\* the caller runs Layer.merge(l1, ..., ln) or Layer.merge(l1, ..., ln, options)
MergeSpread ==
  /\ log = <<>>
  /\ \E n \in 1..MaxLeaves : \E ls \in [1..n -> Operands] : \E options \in OptionArgs :
       /\ layer' = merge(ls \o options)
       /\ log' = <<Event("merge", "spread", 0, <<ls, options>>, NoInstance, NoError)>>
  /\ UNCHANGED <<container, services, singletons, disposals>>

\* the caller runs Layer.merge([l1, ..., ln]) or Layer.merge([l1, ..., ln], options)
MergeArray ==
  /\ log = <<>>
  /\ \E n \in 1..MaxLeaves : \E ls \in [1..n -> Operands] : \E options \in OptionArgs :
       /\ layer' = merge(<<ArrayOf(ls)>> \o options)
       /\ log' = <<Event("merge", "array", 0, <<ls, options>>, NoInstance, NoError)>>
  /\ UNCHANGED <<container, services, singletons, disposals>>

NextCall == MergeSpread \/ MergeArray

SpecCall == InitCall /\ [][NextCall]_vars

\* C25: Layer.merge returns a Merged layer whose children are exactly the
\* given layers, in the given order and as they were given, and whose
\* allowDuplicates is the one of the given options, unset if none were
\* given, in the spread form and in the array form.
C25_MergeWrapsOperands ==
  \A e \in EventsOf("merge") :
    LET given == log[e].args[1]
        options == log[e].args[2]
    IN /\ layer.type = "merged"
       /\ layer.layers = given
       /\ layer.mergeOptions.allowDuplicates =
            (options # <<>> /\ "allowDuplicates" \in options[1].keys
               /\ options[1].allowDuplicates)

\* the recorded edges are the two-node cycle A -> B -> A and nothing else
IsTwoCycle(E) == E["A"] = {"B"} /\ E["B"] = {"A"} /\ E["C"] = {}

\* C26: the CircularDependency error names one node; that node is registered
\* and lies on a cycle of the graph's recorded edges; when the recorded edges
\* are the two-node cycle between A and B, it is the node the sort started
\* from and came back to, the one registered first.
C26_CycleErrorNamesGrayNode ==
  FailedWith("CircularDependency") =>
    LET E == RecordedEdges(layer)
        names == container.thrown.names
    IN /\ Len(names) = 1
       /\ names[1] \in Registered(layer)
       /\ names[1] \in Reach(E, names[1])
       /\ IsTwoCycle(E) => names[1] = LeavesOf(layer)[1].tag.name

\* the sort has started from B, gone to A and come back to B
C26_Witness ==
  /\ FailedWith("CircularDependency")
  /\ IsTwoCycle(RecordedEdges(layer))
  /\ LeavesOf(layer)[1].tag.name = "B"
  /\ container.thrown.names = <<"B">>

\* the sort has started from a node off the cycle and has named the node on it
C26_WitnessLeadIn ==
  /\ FailedWith("CircularDependency")
  /\ container.thrown.names[1] # LeavesOf(layer)[1].tag.name
  /\ RecordedEdges(layer)[LeavesOf(layer)[1].tag.name] = {container.thrown.names[1]}

\* ------------------------------------------------------------------------
\* Trees of value layers, for the counting of names
\* ------------------------------------------------------------------------
\* the caller has merged up to MaxLeaves + 2 value layers over three names
InitCounts ==
  /\ \E n \in 1..(MaxLeaves + 2) : \E names \in [1..n -> Names] : \E ro \in MergeOptionChoices :
       layer = FlatTree(LeafLayers([i \in 1..n |-> ValueDesc(names[i])]), ro)
  /\ container = NotCreated
  /\ InitRuntime

NextCounts ==
  \/ CreateContainer
  \/ \E n \in Names : Probe(TagOf(n))

SpecCounts == InitCounts /\ [][NextCounts]_vars

\* how many leaves of the tree register the name
CountOf(l, n) ==
  LET ls == LeavesOf(l) IN Cardinality({i \in 1..Len(ls) : ls[i].tag.name = n})

\* C27: the DuplicateTag error names exactly the names registered more than
\* once: each of them, each once, and no name registered once.
C27_DuplicateErrorNames ==
  FailedWith("DuplicateTag") =>
    LET names == container.thrown.names
    IN /\ {names[k] : k \in 1..Len(names)} = {n \in Names : CountOf(layer, n) > 1}
       /\ NoRepeat(names)

\* two names are registered twice each
C27_Witness ==
  /\ FailedWith("DuplicateTag")
  /\ Len(container.thrown.names) = 2

\* one name is registered three times and another once
C27_WitnessSingle ==
  /\ FailedWith("DuplicateTag")
  /\ \E n, m \in Names : CountOf(layer, n) = 3 /\ CountOf(layer, m) = 1

\* C28: once createContainer has returned, no get and no dispose, successful
\* or failed, changes the graph the container closes over or the layer tree
\* it was built from.
C28_GraphFrozen ==
  [][container.status = "created" =>
       /\ container' = container
       /\ layer' = layer
       /\ container'.graph = buildGraph(layer')]_vars

\* a get has failed, a get has returned and a dispose() has rejected, and the
\* graph is still the one built from the layer tree
C28_Witness ==
  /\ \E g \in GetEvents : ~Returned(g)
  /\ \E g \in GetEvents : Returned(g)
  /\ \E d \in 1..Len(disposals) : disposals[d].status = "rejected"
  /\ container.graph = buildGraph(layer)

\* C29: the cycle validation runs before the duplicate check: a tree that has
\* a dependency cycle and a repeated name, with allowDuplicates set nowhere,
\* fails with CircularDependency, and DuplicateTag is thrown only for trees
\* whose recorded edges are acyclic.
C29_CycleCheckedFirst ==
  /\ (Constructed /\ HasCycle(DepGraph(layer)) /\ HasDuplicate(layer)
        /\ AllowedNowhere(layer)) => FailedWith("CircularDependency")
  /\ FailedWith("DuplicateTag") => ~HasCycle(RecordedEdges(layer))

\* a tree with a cycle and a repeated name has been rejected for the cycle
C29_Witness ==
  /\ FailedWith("CircularDependency")
  /\ HasCycle(DepGraph(layer)) /\ HasDuplicate(layer) /\ AllowedNowhere(layer)

\* the keys of a map, each held once
UniqueKeys(m) == \A i, j \in 1..Len(m) : m[i].key = m[j].key => i = j

\* C30: the two maps agree: each holds at most one entry per name, and a name
\* is in the singleton memo exactly when services holds a record of scope
\* singleton for it, with the same instance.
C30_MapsAgree ==
  /\ UniqueKeys(services) /\ UniqueKeys(singletons)
  /\ \A n \in Names :
       /\ MapHas(singletons, n) <=>
            (MapHas(services, n) /\ MapGet(services, n).scope = "singleton")
       /\ MapHas(singletons, n) => MapGet(singletons, n) = MapGet(services, n).instance

\* two singletons and a transient are recorded, after a dispose() that
\* cleared both maps
C30_Witness ==
  /\ Clears # {}
  /\ Len(singletons) = 2 /\ Len(services) = 3

\* C31: a get(X) that fails with ServiceNotFound runs no build of X and
\* leaves no record of X, but every singleton built during it stays
\* memoized until the container is cleared: a later get of that singleton
\* returns the same instance and builds nothing, a retried get(X) fails again
\* without building it again, and a dispose() call queues its hook and
\* invokes it when its callbacks run.
C31_FailedGetKeepsDependencies ==
  LET kind == KindOf(layer)
      winner == WinnerOf(layer)
      epoch == EpochOf
      getAt == GetAt
      gets == GetEvents
      builds == Builds
      failed == {h \in gets : log[h].thrown.kind = "ServiceNotFound"}
  IN \A h \in failed :
       LET X == log[h].name
       IN /\ \A b \in builds : getAt[b] = h => log[b].name # X
          /\ ~MapHas(services, X) /\ ~MapHas(singletons, X)
          /\ \A b \in builds :
               (getAt[b] = h /\ kind[log[b].name] = "singleton") =>
                 /\ epoch[b] = Cardinality(Clears) =>
                      /\ MapHas(singletons, log[b].name)
                      /\ MapGet(singletons, log[b].name) = log[b].instance
                 /\ \A g \in gets :
                      (g > h /\ epoch[g] = epoch[h]) =>
                        /\ \A b2 \in builds : getAt[b2] = g => log[b2].name # log[b].name
                        /\ log[g].name = log[b].name =>
                             /\ log[g].instance = log[b].instance
                             /\ \A b2 \in builds : getAt[b2] # g
                        /\ log[g].name = X => log[g].thrown = log[h].thrown
                 /\ \A c \in EventsOf("dispose") :
                      (c > b /\ epoch[c] = epoch[b] /\ winner[log[b].name].options.dispose # 0) =>
                        \E i \in 1..Len(disposals[log[c].fn].promises) :
                          LET pr == disposals[log[c].fn].promises[i]
                          IN /\ pr.instance = log[b].instance
                             /\ pr.state # "queued" =>
                                  \E k \in EventsOf("hook") :
                                    k > c /\ log[k].instance = log[b].instance

\* a get has failed after it built a singleton that has a dispose hook, a
\* later get has returned that singleton, and a dispose() has invoked its hook
C31_Witness ==
  \E h, g \in GetEvents : \E b \in Builds : \E k \in EventsOf("hook") :
    /\ log[h].thrown.kind = "ServiceNotFound"
    /\ b < h /\ h < g /\ g < k
    /\ log[g].instance = log[b].instance
    /\ log[k].instance = log[b].instance

\* a get that failed after it built a singleton has been retried
C31_WitnessRetry ==
  \E h, g \in GetEvents : \E b \in Builds :
    /\ log[h].thrown.kind = "ServiceNotFound"
    /\ b < h /\ h < g /\ log[g].name = log[h].name
    /\ IsSingletonFactory(layer, log[b].name)

\* ------------------------------------------------------------------------
\* Overlapping and repeated dispose() calls
\* ------------------------------------------------------------------------
\* singleton factories only: A with a dispose hook, depending on B or on
\* nothing; B with or without a dispose hook, or not registered
OverlapTrees ==
  {FlatTree(LeafLayers(SelectSeq(<<a, b>>, IsPresent)), NoMergeOptions) :
     a \in {FactoryDesc("A", d, "undefined", TRUE) : d \in {<<>>, <<"B">>}},
     b \in {AbsentDesc("B")}
            \cup {FactoryDesc("B", <<>>, "undefined", h) : h \in BOOLEAN}}

InitOverlap ==
  /\ layer \in OverlapTrees
  /\ container = Created(layer)
  /\ InitRuntime

\* the caller does not wait: it may call get and dispose() while earlier
\* dispose() calls are awaiting their hooks, and it calls dispose() at most
\* MaxDisposes times
NextOverlap ==
  \/ \E n \in BuildNames : Get(TagOf(n))
  \/ (Len(disposals) < MaxDisposes /\ DisposeCall)
  \/ \E d \in 1..Len(disposals) : RunHooks(d)
  \/ \E d \in 1..Len(disposals) : \E i \in 1..Len(disposals[d].promises) :
       \E ok \in BOOLEAN : SettleHook(d, i, ok)
  \/ \E d \in 1..Len(disposals) : DisposeResume(d)

SpecOverlap == InitOverlap /\ [][NextOverlap]_vars

\* C32: every instance built by a factory whose layer has a dispose hook is
\* still recorded in services or has had its hook invoked, whatever the
\* interleaving of get with dispose() calls in flight.
C32_NoInstanceDropped ==
  \A b \in Builds :
    HookOf(b) # 0 =>
      \/ /\ MapHas(services, log[b].name)
         /\ MapGet(services, log[b].name).instance = log[b].instance
      \/ \E k \in EventsOf("hook") : log[k].instance = log[b].instance

\* the log position at which dispose() call d settled, 0 while it is pending
SettledAt(d) ==
  IF \E e \in EventsOf("disposed") : log[e].fn = d
  THEN CHOOSE e \in EventsOf("disposed") : log[e].fn = d
  ELSE 0
\* dispose() call d2 was made while the earlier call d1 was awaiting its hooks
Overlap(d1, d2) == d1 < d2 /\ (SettledAt(d1) = 0 \/ SettledAt(d1) > CallOf(d2))
\* the instances whose hooks dispose() call d has invoked
InvokedBy(d) ==
  {disposals[d].promises[i].instance :
     i \in {j \in 1..Len(disposals[d].promises) : disposals[d].promises[j].state # "queued"}}

\* C33: when dispose() is called again while an earlier call is awaiting its
\* hooks, no instance has its hook invoked by both calls.
C33_OverlapInvokesOnce ==
  \A d1, d2 \in 1..Len(disposals) :
    Overlap(d1, d2) => InvokedBy(d1) \cap InvokedBy(d2) = {}

\* C34: a dispose() call made after an earlier call has settled, fulfilled or
\* rejected, with no get since that earlier call was made, finds no hook to
\* invoke.
C34_RepeatedDisposeInvokesNothing ==
  \A d1, d2 \in 1..Len(disposals) :
    (/\ d1 < d2
     /\ SettledAt(d1) # 0 /\ SettledAt(d1) < CallOf(d2)
     /\ \A g \in GetEvents : ~(CallOf(d1) < g /\ g < CallOf(d2)))
      => disposals[d2].promises = <<>>

\* ------------------------------------------------------------------------
\* Trees in which one layer object occurs at several positions
\* ------------------------------------------------------------------------
\* the caller has made two layer objects, a value or factory layer x and a
\* value layer y, and has merged them, each possibly more than once, in any
\* shape
InitShared ==
  /\ \E x \in BuildDescs : \E y \in {ValueDesc(n) : n \in BuildNames} :
       \E n \in 2..(MaxLeaves + 1) : \E pos \in [1..n -> {1, 2}] : \E shape \in Shapes(n) :
         layer = TreeOf([i \in 1..n |-> Leaf(IF pos[i] = 1 THEN x ELSE y, pos[i])], shape)
  /\ container = NotCreated
  /\ InitRuntime

NextShared ==
  \/ CreateContainer
  \/ \E n \in Names : Probe(TagOf(n))

SpecShared == InitShared /\ [][NextShared]_vars

\* the names of the layer objects that occur at more than one position
SharedNames(l) ==
  LET ls == LeavesOf(l)
  IN {ls[i].tag.name : i \in {j \in 1..Len(ls) : \E k \in 1..Len(ls) : k # j /\ ls[k] = ls[j]}}

\* C35 as stated: when a layer object occurs at two positions of the tree and
\* allowDuplicates is set nowhere, createContainer fails with DuplicateTag.
C35_SharedObjectIsDuplicateTag ==
  (Constructed /\ SharedNames(layer) # {} /\ AllowedNowhere(layer)) =>
    FailedWith("DuplicateTag")

\* C35: the count of a name is the number of leaf positions that register
\* it, whether the positions hold one layer object or several; when a layer
\* object occurs at two positions and allowDuplicates is set nowhere,
\* createContainer fails, with CircularDependency if the recorded edges have
\* a cycle and otherwise with a DuplicateTag error that names the object's
\* tag; with allowDuplicates set on the root merge DuplicateTag is not thrown.
C35_CountedPerPosition ==
  /\ \A n \in Registered(layer) :
       MapGet(buildGraph(layer).tagCounts, n) = CountOf(layer, n)
  /\ (Constructed /\ SharedNames(layer) # {}) =>
       /\ AllowedNowhere(layer) =>
            IF HasCycle(RecordedEdges(layer))
            THEN FailedWith("CircularDependency")
            ELSE /\ FailedWith("DuplicateTag")
                 /\ \A n \in SharedNames(layer) :
                      \E k \in 1..Len(container.thrown.names) : container.thrown.names[k] = n
       /\ RootAllows(layer) => ~FailedWith("DuplicateTag")

\* one layer object occurs directly and inside a nested merge, no other
\* layer registers its name, and construction has failed with DuplicateTag
C35_Witness ==
  /\ FailedWith("DuplicateTag")
  /\ layer.type = "merged"
  /\ \E i, j \in 1..Len(layer.layers) :
       /\ layer.layers[i].type # "merged" /\ layer.layers[j].type = "merged"
       /\ \E k \in 1..Len(layer.layers[j].layers) : layer.layers[j].layers[k] = layer.layers[i]
       /\ CountOf(layer, layer.layers[i].tag.name) = 2

\* ------------------------------------------------------------------------
\* Two containers constructed from one layer tree
\* ------------------------------------------------------------------------
\* In this specification container, services, singletons and disposals hold
\* one value per container: each createContainer call makes its own graph and
\* its own two maps. The log is the one history of the program; a get or
\* dispose event carries in fn the container the call was made on.
Containers == {1, 2}

\* singleton factories A, with a dispose hook, and B, without one, A
\* depending on B or on nothing
PairTrees ==
  {FlatTree(LeafLayers(<<FactoryDesc("A", d, "undefined", TRUE),
                         FactoryDesc("B", <<>>, "undefined", FALSE)>>), NoMergeOptions) :
     d \in {<<>>, <<"B">>}}

InitPair ==
  /\ layer \in PairTrees
  /\ container = [c \in Containers |-> Created(layer)]
  /\ services = [c \in Containers |-> <<>>]
  /\ singletons = [c \in Containers |-> <<>>]
  /\ disposals = [c \in Containers |-> <<>>]
  /\ log = <<>>

\* the caller runs get(tg) on container c
GetIn(c, tg) ==
  /\ container[c].status = "created"
  /\ Cardinality(EventsOf("get")) < MaxGets
  /\ LET rt == get(container[c].graph,
                   [services |-> services[c], singletons |-> singletons[c], log |-> log,
                    thrown |-> NoError, ret |-> NoInstance], tg)
     IN /\ services' = [services EXCEPT ![c] = rt.services]
        /\ singletons' = [singletons EXCEPT ![c] = rt.singletons]
        /\ log' = Append(rt.log, Event("get", tg.name, c, <<>>, rt.ret, rt.thrown))
  /\ UNCHANGED <<layer, container, disposals>>

\* the caller runs dispose() on container c, once
DisposeCallIn(c) ==
  /\ container[c].status = "created"
  /\ disposals[c] = <<>>
  /\ disposals' = [disposals EXCEPT ![c] =
                     <<[promises |-> disposePromises(services[c], Len(services[c])),
                        status |-> "pending"]>>]
  /\ log' = Append(log, Event("dispose", "", c, <<>>, NoInstance, NoError))
  /\ UNCHANGED <<layer, container, services, singletons>>

\* the callbacks queued by the dispose() call on container c run
RunHooksIn(c) ==
  /\ disposals[c] # <<>>
  /\ Len(disposals[c][1].promises) > 0
  /\ \A i \in 1..Len(disposals[c][1].promises) : disposals[c][1].promises[i].state = "queued"
  /\ disposals' = [disposals EXCEPT ![c][1].promises =
        [i \in 1..Len(@) |-> [@[i] EXCEPT !.state = "running"]]]
  /\ log' = log \o hookEvents(disposals[c][1].promises)
  /\ UNCHANGED <<layer, container, services, singletons>>

\* a running hook of the dispose() call on container c settles
SettleHookIn(c, i, ok) ==
  /\ disposals[c] # <<>>
  /\ i \in 1..Len(disposals[c][1].promises)
  /\ disposals[c][1].promises[i].state = "running"
  /\ disposals' = [disposals EXCEPT ![c][1].promises[i].state =
                      IF ok THEN "fulfilled" ELSE "rejected"]
  /\ UNCHANGED <<layer, container, services, singletons, log>>

\* the maps of every container cleared, as if they were module-level state
DisposeResumeInAll(c) ==
  /\ disposals[c] # <<>>
  /\ disposals[c][1].status = "pending"
  /\ LET ps == disposals[c][1].promises
         rejected == \E i \in 1..Len(ps) : ps[i].state = "rejected"
         fulfilled == \A i \in 1..Len(ps) : ps[i].state = "fulfilled"
     IN /\ rejected \/ fulfilled
        /\ IF rejected
           THEN /\ disposals' = [disposals EXCEPT ![c][1].status = "rejected"]
                /\ log' = Append(log, Event("disposed", "", c, <<>>, NoInstance, DisposeFailure))
                /\ UNCHANGED <<services, singletons>>
           ELSE /\ disposals' = [disposals EXCEPT ![c][1].status = "fulfilled"]
                /\ log' = Append(log, Event("disposed", "", c, <<>>, NoInstance, NoError))
                /\ services' = [k \in Containers |-> <<>>]
                /\ singletons' = [k \in Containers |-> <<>>]
  /\ UNCHANGED <<layer, container>>

\* the dispose() call on container c resumes after its await
DisposeResumeIn(c) ==
  /\ disposals[c] # <<>>
  /\ disposals[c][1].status = "pending"
  /\ LET ps == disposals[c][1].promises
         rejected == \E i \in 1..Len(ps) : ps[i].state = "rejected"
         fulfilled == \A i \in 1..Len(ps) : ps[i].state = "fulfilled"
     IN /\ rejected \/ fulfilled
        /\ IF rejected
           THEN /\ disposals' = [disposals EXCEPT ![c][1].status = "rejected"]
                /\ log' = Append(log, Event("disposed", "", c, <<>>, NoInstance, DisposeFailure))
                /\ UNCHANGED <<services, singletons>>
           ELSE /\ disposals' = [disposals EXCEPT ![c][1].status = "fulfilled"]
                /\ log' = Append(log, Event("disposed", "", c, <<>>, NoInstance, NoError))
                /\ services' = [services EXCEPT ![c] = <<>>]
                /\ singletons' = [singletons EXCEPT ![c] = <<>>]
  /\ UNCHANGED <<layer, container>>

NextPair ==
  \/ \E c \in Containers : \E n \in BuildNames : GetIn(c, TagOf(n))
  \/ \E c \in Containers : DisposeCallIn(c)
  \/ \E c \in Containers : RunHooksIn(c)
  \/ \E c \in Containers :
       \E i \in (IF disposals[c] = <<>> THEN {} ELSE 1..Len(disposals[c][1].promises)) :
         \E ok \in BOOLEAN : SettleHookIn(c, i, ok)
  \/ \E c \in Containers : DisposeResumeIn(c)

SpecPair == InitPair /\ [][NextPair]_vars

\* the container on which the get that ran build b was called
OwnerOf(b) == log[GetAt[b]].fn
\* the built instances a container holds in its two maps
HeldBy(c) ==
  {services[c][i].value.instance : i \in 1..Len(services[c])}
  \cup {singletons[c][i].value : i \in 1..Len(singletons[c])}
\* the dispose() call on container c has cleared its maps
ClearedIn(c) == disposals[c] # <<>> /\ disposals[c][1].status = "fulfilled"

\* C36: two containers constructed from one layer tree share no runtime
\* state: every instance a container holds was built by a get on that
\* container; the first get of a singleton on a container builds it, whatever
\* the other container holds; a dispose() call queues hooks only for
\* instances built on its own container; and until a container's own
\* dispose() has cleared it, it keeps every singleton its gets returned.
C36_ContainersIsolated ==
  LET getAt == GetAt
      gets == GetEvents
      builds == Builds
      owner(b) == log[getAt[b]].fn
  IN /\ \A c \in Containers : \A inst \in HeldBy(c) :
          inst.src = "built" => owner(inst.n) = c
     /\ \A c \in Containers : \A d \in 1..Len(disposals[c]) :
          \A i \in 1..Len(disposals[c][d].promises) :
            owner(disposals[c][d].promises[i].instance.n) = c
     /\ \A g \in gets :
          (Returned(g) /\ IsSingletonFactory(layer, log[g].name)) =>
            /\ owner(log[g].instance.n) = log[g].fn
            /\ (\A h \in gets : (h < g /\ log[h].fn = log[g].fn) => ~Returned(h)
                                   /\ log[h].name # log[g].name)
                 /\ ~(\E e \in EventsOf("disposed") : e < g /\ log[e].fn = log[g].fn)
                 => \E b \in builds : getAt[b] = g /\ log[b].name = log[g].name
            /\ ~ClearedIn(log[g].fn) =>
                 /\ MapHas(singletons[log[g].fn], log[g].name)
                 /\ MapGet(singletons[log[g].fn], log[g].name) = log[g].instance

\* both containers have built A; the first has been disposed of and cleared,
\* with its hook invoked, and the second still holds its own instance
C36_Witness ==
  /\ ClearedIn(1) /\ services[1] = <<>>
  /\ MapHas(singletons[2], "A")
  /\ \E g1, g2 \in GetEvents :
       /\ log[g1].fn = 1 /\ log[g2].fn = 2 /\ g1 < g2
       /\ log[g1].name = "A" /\ log[g2].name = "A"
       /\ log[g1].instance # log[g2].instance
       /\ \E k \in EventsOf("hook") : log[k].instance = log[g1].instance
       /\ ~(\E k \in EventsOf("hook") : log[k].instance = log[g2].instance)

\* the caller only requests services: the trees of Init, and get calls
NextGets == \E n \in Names : Get(TagOf(n))

SpecGets == Init /\ [][NextGets]_vars

\* C37: during a get that returns, a transient name is built once per
\* request for it: once if the get asks for it, and once for every build of
\* that get that declares it; no two builds ever receive the same transient
\* instance; and a later get of a singleton that was built with a transient
\* dependency builds nothing.
C37_TransientPerRequest ==
  LET kind == KindOf(layer)
      transients == {T \in Names : kind[T] = "transient"}
  IN transients # {} =>
       LET winner == WinnerOf(layer)
           epoch == EpochOf
           getAt == GetAt
           gets == GetEvents
           builds == Builds
           declared == [b \in builds |->
                          {winner[log[b].name].dependencies[k].name :
                             k \in 1..Len(winner[log[b].name].dependencies)}]
           received == [b \in builds |-> {log[b].args[k] : k \in 1..Len(log[b].args)}]
       IN /\ \A g \in gets :
               Returned(g) =>
                 \A T \in transients :
                   Cardinality({b \in builds : getAt[b] = g /\ log[b].name = T})
                     = Cardinality({b \in builds : getAt[b] = g /\ T \in declared[b]})
                       + (IF log[g].name = T THEN 1 ELSE 0)
          /\ \A b1 \in builds : \A k1 \in 1..Len(log[b1].args) :
               winner[log[b1].name].dependencies[k1].name \in transients =>
                 /\ \A b2 \in builds \ {b1} : log[b1].args[k1] \notin received[b2]
                 /\ \A k2 \in 1..Len(log[b1].args) :
                      log[b1].args[k2] = log[b1].args[k1] => k2 = k1
          /\ \A b \in builds :
               (kind[log[b].name] = "singleton" /\ declared[b] \cap transients # {}) =>
                 \A g \in gets :
                   (g > getAt[b] /\ epoch[g] = epoch[b] /\ log[g].name = log[b].name) =>
                     /\ log[g].instance = log[b].instance
                     /\ \A b2 \in builds : getAt[b2] # g

\* one get has built the transient C twice, once for A and once for B, and a
\* later get of the singleton A has returned
C37_Witness ==
  \E g, g2 \in GetEvents :
    /\ g < g2 /\ SameEpoch(g, g2) /\ log[g].name = "A" /\ log[g2].name = "A"
    /\ IsSingletonFactory(layer, "A") /\ IsTransientFactory(layer, "C")
    /\ Cardinality({b \in Builds : GetAt[b] = g /\ log[b].name = "C"}) = 2
    /\ Returned(g2)

\* the calls of createService that a request for name can nest, followed
\* through the dependencies of the layer recorded for each name and with no
\* help from the singleton memo: whether some call is for a name that is
\* already on its own path of calls, and the largest number of calls for
\* registered names open at once
RECURSIVE Descend(_, _, _)
Descend(graph, name, path) ==
  IF name \in path THEN [reentered |-> TRUE, depth |-> Cardinality(path)]
  ELSE IF ~MapHas(graph.layerMap, name) THEN [reentered |-> FALSE, depth |-> Cardinality(path)]
  ELSE LET deps == MapGet(graph.layerMap, name).dependencies
           sub == {Descend(graph, deps[k].name, path \cup {name}) : k \in 1..Len(deps)}
       IN [reentered |-> \E r \in sub : r.reentered,
           depth |-> CHOOSE m \in {Cardinality(path) + 1} \cup {r.depth : r \in sub} :
                       \A r \in sub : r.depth <= m]

C38_WitnessNested ==
  /\ Succeeded
  /\ \E g \in GetEvents :
       Returned(g) /\ Descend(container.graph, log[g].name, {}).depth = 2

\* ------------------------------------------------------------------------
\* Progress of dispose()
\* ------------------------------------------------------------------------
\* The runtime runs every queued microtask, so the callbacks dispose() queued
\* run (RunHooks) and dispose() resumes once Promise.all has settled
\* (DisposeResume); every hook that was started settles, which is what the
\* caller's hooks are assumed to do (SettleHook).
RunsHooks == \E d \in 1..Len(disposals) : RunHooks(d)
SettlesHook ==
  \E d \in 1..Len(disposals) : \E i \in 1..Len(disposals[d].promises) :
    \E ok \in BOOLEAN : SettleHook(d, i, ok)
Resumes == \E d \in 1..Len(disposals) : DisposeResume(d)

SpecFair ==
  /\ Init /\ [][Next]_vars
  /\ WF_vars(RunsHooks) /\ WF_vars(SettlesHook) /\ WF_vars(Resumes)

\* a dispose() call has been made and has not settled
DisposePending == Len(disposals) > 0 /\ disposals[1].status = "pending"

\* C39: when every hook that dispose() starts settles, a dispose() call that
\* is pending eventually settles, and a dispose() call that found no hook to
\* invoke eventually fulfils.
C39_DisposeSettles ==
  /\ DisposePending ~> (Len(disposals) > 0 /\ disposals[1].status # "pending")
  /\ (DisposePending /\ disposals[1].promises = <<>>)
       ~> (Len(disposals) > 0 /\ disposals[1].status = "fulfilled")

\* a dispose() call that invoked two hooks has fulfilled
C39_Witness ==
  /\ Len(disposals) > 0
  /\ disposals[1].status = "fulfilled"
  /\ Len(disposals[1].promises) = 2

\* a dispose() call on a container whose only record has no hook has fulfilled
C39_WitnessNoHook ==
  /\ Len(disposals) > 0
  /\ disposals[1].status = "fulfilled"
  /\ disposals[1].promises = <<>>
  /\ \E b \in Builds : b < CallOf(1)

====
